---- MODULE Spec2Model ----
(***************************************************************************)
(* Live-reconciliation ingestion of gestao-server                          *)
(* (server/app/modules/d1/services/bipagens_processor.py and the route     *)
(* server/app/modules/d1/routes/bipagens.py): spreadsheet rows are reduced *)
(* to one row per shipment, joined with the d1_chunks reference store,     *)
(* aged, and upserted into d1_bipagens in batches with a per-record        *)
(* fallback. The chunked upload of the reference table                     *)
(* (server/app/modules/d1/routes/upload.py) and the driver-status tables   *)
(* of the D1 and SLA routes are modelled in sections of their own.         *)
(*                                                                         *)
(* Python values are tagged records [t, v]; text is a sequence of          *)
(* one-character strings so that str(), strip(), upper(), re.search() and  *)
(* strptime() are computed character by character.                         *)
(***************************************************************************)
EXTENDS Integers, Sequences, FiniteSets, TLC

(***************************************************************************)
(* Python scalar values as openpyxl hands them over (cell.value)           *)
(***************************************************************************)
PyNone == [t |-> "none", v |-> <<>>]
PyStr(s) == [t |-> "str", v |-> s]
PyInt(n) == [t |-> "int", v |-> n]
\* a naive datetime: proleptic day number and second of the day
PyDatetime(d, s) == [t |-> "datetime", v |-> <<d, s>>]
PyBool(b) == [t |-> "bool", v |-> b]

Vazio == PyStr(<<>>)

DIGITOS == <<"0", "1", "2", "3", "4", "5", "6", "7", "8", "9">>
MINUSCULAS == <<"a", "b", "c", "d", "e", "f", "g", "h", "i", "j", "k", "l", "m", "n", "o", "p", "q", "r", "s", "t", "u", "v", "w", "x", "y", "z", "á">>
MAIUSCULAS == <<"A", "B", "C", "D", "E", "F", "G", "H", "I", "J", "K", "L", "M", "N", "O", "P", "Q", "R", "S", "T", "U", "V", "W", "X", "Y", "Z", "Á">>
ASCII_LETRAS == 26

IsDigit(c) == \E i \in 1..Len(DIGITOS) : DIGITOS[i] = c
IsAsciiLetter(c) == \E i \in 1..ASCII_LETRAS : MINUSCULAS[i] = c \/ MAIUSCULAS[i] = c
IsSpace(c) == c = " "
DigitValue(c) == (CHOOSE i \in 1..Len(DIGITOS) : DIGITOS[i] = c) - 1

\* decimal digits of an integer, as str(int) and f"{n}" print them
RECURSIVE DigitsOf(_)
DigitsOf(n) == IF n < 10 THEN <<DIGITOS[n + 1]>> ELSE DigitsOf(n \div 10) \o <<DIGITOS[(n % 10) + 1]>>
IntStr(n) == IF n < 0 THEN <<"-">> \o DigitsOf(0 - n) ELSE DigitsOf(n)

\* str(x) for the values a cell can hold
str(x) ==
  CASE x.t = "none" -> <<"N", "o", "n", "e">>
    [] x.t = "str" -> x.v
    [] x.t = "int" -> IntStr(x.v)
    [] x.t = "bool" -> IF x.v THEN <<"T", "r", "u", "e">> ELSE <<"F", "a", "l", "s", "e">>
    [] OTHER -> <<"<", x.t, ">">>

\* Python truthiness: `if x`, `not x`, `x or y`
Truthy(x) ==
  CASE x.t = "none" -> FALSE
    [] x.t = "str" -> Len(x.v) > 0
    [] x.t = "int" -> x.v # 0
    [] x.t = "bool" -> x.v
    [] OTHER -> TRUE

RECURSIVE lstrip(_)
lstrip(s) == IF Len(s) > 0 /\ IsSpace(s[1]) THEN lstrip(Tail(s)) ELSE s
RECURSIVE rstrip(_)
rstrip(s) == IF Len(s) > 0 /\ IsSpace(s[Len(s)]) THEN rstrip(SubSeq(s, 1, Len(s) - 1)) ELSE s
strip(s) == rstrip(lstrip(s))

UpperChar(c) == IF \E i \in 1..Len(MINUSCULAS) : MINUSCULAS[i] = c THEN MAIUSCULAS[CHOOSE i \in 1..Len(MINUSCULAS) : MINUSCULAS[i] = c] ELSE c
upper(s) == [i \in 1..Len(s) |-> UpperChar(s[i])]
LowerChar(c) == IF \E i \in 1..Len(MAIUSCULAS) : MAIUSCULAS[i] = c THEN MINUSCULAS[CHOOSE i \in 1..Len(MAIUSCULAS) : MAIUSCULAS[i] = c] ELSE c
lower(s) == [i \in 1..Len(s) |-> LowerChar(s[i])]
endswith(s, suf) == Len(s) >= Len(suf) /\ SubSeq(s, Len(s) - Len(suf) + 1, Len(s)) = suf

\* needle in hay (Python substring test)
Contains(hay, needle) == \E i \in 1..(Len(hay) - Len(needle) + 1) : SubSeq(hay, i, i + Len(needle) - 1) = needle

AllDigits(s) == \A i \in 1..Len(s) : IsDigit(s[i])

\* re.search(sep \d+ $, s): some position holds sep and everything after it is one or more digits
SearchSepDigits(sep, s) == \E i \in 1..Len(s) : s[i] = sep /\ i < Len(s) /\ AllDigits(SubSeq(s, i + 1, Len(s)))
\* re.search([A-Za-z]$, s)
SearchLetterEnd(s) == Len(s) > 0 /\ IsAsciiLetter(s[Len(s)])

\* mutant: the underscore alternative is missing
is_child_SemSublinhado(numero_pedido) ==
  \/ SearchSepDigits(".", numero_pedido)
  \/ SearchSepDigits("-", numero_pedido)
  \/ SearchLetterEnd(numero_pedido)

is_child(numero_pedido) ==
  \/ SearchSepDigits(".", numero_pedido)
  \/ SearchSepDigits("-", numero_pedido)
  \/ SearchSepDigits("_", numero_pedido)
  \/ SearchLetterEnd(numero_pedido)

(***************************************************************************)
(* datetime: strptime over the four accepted formats, ordering, and the    *)
(* day count of a difference                                               *)
(***************************************************************************)
\* "d" in a shape stands for one digit, any other character for itself.
\* Texts are taken zero-padded (fixed width), as the exports write them.
FMT_YMD_HMS == <<"d", "d", "d", "d", "-", "d", "d", "-", "d", "d", " ", "d", "d", ":", "d", "d", ":", "d", "d">>
FMT_YMD == <<"d", "d", "d", "d", "-", "d", "d", "-", "d", "d">>
FMT_DMY_HMS == <<"d", "d", "/", "d", "d", "/", "d", "d", "d", "d", " ", "d", "d", ":", "d", "d", ":", "d", "d">>
FMT_DMY == <<"d", "d", "/", "d", "d", "/", "d", "d", "d", "d">>
\* the format list, in the order the code tries it, with the place of each field
FORMATOS == <<
  [shape |-> FMT_YMD_HMS, Y |-> 1, m |-> 6, d |-> 9, H |-> 12, M |-> 15, S |-> 18],
  [shape |-> FMT_YMD, Y |-> 1, m |-> 6, d |-> 9, H |-> 0, M |-> 0, S |-> 0],
  [shape |-> FMT_DMY_HMS, Y |-> 7, m |-> 4, d |-> 1, H |-> 12, M |-> 15, S |-> 18],
  [shape |-> FMT_DMY, Y |-> 7, m |-> 4, d |-> 1, H |-> 0, M |-> 0, S |-> 0] >>

MatchesShape(s, shape) == Len(s) = Len(shape) /\ \A i \in 1..Len(shape) : IF shape[i] = "d" THEN IsDigit(s[i]) ELSE s[i] = shape[i]
Num2(s, i) == IF i = 0 THEN 0 ELSE 10 * DigitValue(s[i]) + DigitValue(s[i + 1])
Num4(s, i) == 100 * Num2(s, i) + Num2(s, i + 2)

IsLeap(y) == y % 4 = 0 /\ (y % 100 # 0 \/ y % 400 = 0)
DAYS_IN_MONTH == <<31, 28, 31, 30, 31, 30, 31, 31, 30, 31, 30, 31>>
DaysInMonth(y, m) == IF m = 2 /\ IsLeap(y) THEN 29 ELSE DAYS_IN_MONTH[m]
RECURSIVE DaysBeforeMonth(_, _)
DaysBeforeMonth(y, m) == IF m = 1 THEN 0 ELSE DaysBeforeMonth(y, m - 1) + DaysInMonth(y, m - 1)
DaysBeforeYear(y) == (y - 1) * 365 + (y - 1) \div 4 - (y - 1) \div 100 + (y - 1) \div 400
\* date.toordinal()
ymd2ord(y, m, d) == DaysBeforeYear(y) + DaysBeforeMonth(y, m) + d

\* datetime.strptime(s, fmt): the value, or PyNone for a ValueError
strptime(s, f) ==
  IF ~MatchesShape(s, f.shape) THEN PyNone
  ELSE LET y == Num4(s, f.Y)
           m == Num2(s, f.m)
           d == Num2(s, f.d)
           H == Num2(s, f.H)
           M == Num2(s, f.M)
           S == Num2(s, f.S)
       IN IF y >= 1 /\ m \in 1..12 /\ d >= 1 /\ d <= DaysInMonth(y, m) /\ H <= 23 /\ M <= 59 /\ S <= 59
          THEN PyDatetime(ymd2ord(y, m, d), H * 3600 + M * 60 + S)
          ELSE PyNone

\* for fmt in [...]: try strptime; break -- first success wins, PyNone when the loop ends without one
RECURSIVE TryFormats(_, _)
TryFormats(s, i) ==
  IF i > Len(FORMATOS) THEN PyNone
  ELSE IF strptime(s, FORMATOS[i]) # PyNone THEN strptime(s, FORMATOS[i]) ELSE TryFormats(s, i + 1)

\* a < b on naive datetimes
DtLess(a, b) == a.v[1] < b.v[1] \/ (a.v[1] = b.v[1] /\ a.v[2] < b.v[2])
\* mutant: the difference of the calendar dates, the time of day ignored
TimedeltaDays_SoDatas(a, b) == a.v[1] - b.v[1]

\* (a - b).days: timedelta normalises seconds into 0..86399, so days is the floor
TimedeltaDays(a, b) == (a.v[1] - b.v[1]) + ((a.v[2] - b.v[2]) \div 86400)

(***************************************************************************)
(* Rows: dicts from column name to cell value                              *)
(***************************************************************************)
COL_PEDIDO == "Numero de pedido JMS"
COL_TEMPO == "Tempo de digitalizacao"
COL_CORREIO == "Correio de coleta ou entrega"
COL_TIPO == "Tipo de bipagem"
COL_DIGITALIZADOR == "Digitalizador"
COL_BASE_DESTINO == "Base Destino"
COL_BASE_ESCANEAMENTO == "Base de escaneamento"
COL_RESPONSAVEL == "Responsavel pela entrega"
COL_BASE_ENTREGA == "Base de entrega"
COL_MARCA == "Marca de assinatura"
COL_CIDADE == "Cidade Destino"
COL_PARADO == "Tempo de Pedido parado"

\* dict.get(key, default)
Get(d, k, default) == IF k \in DOMAIN d THEN d[k] ELSE default
\* d[key] = value
Put(d, k, val) == [x \in (DOMAIN d) \cup {k} |-> IF x = k THEN val ELSE d[x]]

(***************************************************************************)
(* Recency Resolver: _deduplicar_por_data_recente                          *)
(***************************************************************************)
\* mutant: only the first format of the list is tried
ParseTempo_SoPrimeiroFormato(item) ==
  LET tempo_digitalizacao_str == Get(item, COL_TEMPO, PyNone)
  IN IF ~Truthy(tempo_digitalizacao_str) THEN PyNone
     ELSE IF tempo_digitalizacao_str.t = "datetime" THEN tempo_digitalizacao_str
     ELSE IF tempo_digitalizacao_str.t = "str" THEN strptime(tempo_digitalizacao_str.v, FORMATOS[1])
     ELSE PyNone

\* the scan time of a row as the grouping loop reads it: a datetime, or PyNone when the row is skipped
ParseTempo(item) ==
  LET tempo_digitalizacao_str == Get(item, COL_TEMPO, PyNone)
  IN IF ~Truthy(tempo_digitalizacao_str) THEN PyNone
     ELSE IF tempo_digitalizacao_str.t = "datetime" THEN tempo_digitalizacao_str
     ELSE IF tempo_digitalizacao_str.t = "str" THEN TryFormats(tempo_digitalizacao_str.v, 1)
     ELSE PyNone

NumeroPedido(item) == strip(str(Get(item, COL_PEDIDO, Vazio)))

\* whether the grouping loop keeps the row
Agrupavel(item) == Len(NumeroPedido(item)) > 0 /\ ~is_child(NumeroPedido(item)) /\ ParseTempo(item) # PyNone

\* keys of pedidos_agrupados in insertion order
RECURSIVE ChavesEmOrdem(_, _, _)
ChavesEmOrdem(dados, i, acc) ==
  IF i > Len(dados) THEN acc
  ELSE LET k == NumeroPedido(dados[i])
       IN IF Agrupavel(dados[i]) /\ ~(\E j \in 1..Len(acc) : acc[j] = k)
          THEN ChavesEmOrdem(dados, i + 1, Append(acc, k))
          ELSE ChavesEmOrdem(dados, i + 1, acc)

\* pedidos_agrupados[numero_pedido]: the kept rows of one key, in input order, each with its parsed time
Grupo(dados, k) == SelectSeq([i \in 1..Len(dados) |-> [item |-> dados[i], tempo |-> ParseTempo(dados[i])]], LAMBDA e : Agrupavel(e.item) /\ NumeroPedido(e.item) = k)

\* mutant: the latest row that names a courier is preferred to the latest row
MelhorRegistro_PrefereCorreio(registros) ==
  LET com_correio == SelectSeq(registros, LAMBDA e : Len(strip(str(Get(e.item, COL_CORREIO, Vazio)))) > 0 /\ Get(e.item, COL_CORREIO, Vazio) # PyNone)
      candidatos == IF Len(com_correio) > 0 THEN com_correio ELSE registros
      melhor_registro == CHOOSE e \in {candidatos[i] : i \in 1..Len(candidatos)} :
                           \A i \in 1..Len(candidatos) : ~(candidatos[i].tempo.v[1] > e.tempo.v[1]
                              \/ (candidatos[i].tempo.v[1] = e.tempo.v[1] /\ candidatos[i].tempo.v[2] > e.tempo.v[2]))
  IN Put(melhor_registro.item, "_tem_motorista", PyBool(Len(com_correio) > 0))

\* mutant: among equal scan times the row that comes last is put first
RECURSIVE InsertDesc_UltimoVence(_, _)
InsertDesc_UltimoVence(sorted, e) ==
  IF Len(sorted) = 0 THEN <<e>>
  ELSE IF ~DtLess(e.tempo, Head(sorted).tempo) THEN <<e>> \o sorted
  ELSE <<Head(sorted)>> \o InsertDesc_UltimoVence(Tail(sorted), e)

\* list.sort(key=..., reverse=True) is stable: equal keys keep their order
RECURSIVE InsertDesc(_, _)
InsertDesc(sorted, e) ==
  IF Len(sorted) = 0 THEN <<e>>
  ELSE IF DtLess(Head(sorted).tempo, e.tempo) THEN <<e>> \o sorted
  ELSE <<Head(sorted)>> \o InsertDesc(Tail(sorted), e)
RECURSIVE SortDesc(_, _, _)
SortDesc(registros, i, acc) == IF i > Len(registros) THEN acc ELSE SortDesc(registros, i + 1, InsertDesc(acc, registros[i]))

MelhorRegistro(registros) ==
  LET melhor_registro == SortDesc(registros, 1, <<>>)[1].item
      correio == strip(str(Get(melhor_registro, COL_CORREIO, Vazio)))
      tem_motorista == Len(correio) > 0
  IN Put(melhor_registro, "_tem_motorista", PyBool(tem_motorista))

deduplicar_por_data_recente(dados) ==
  LET chaves == ChavesEmOrdem(dados, 1, <<>>)
  IN [n \in 1..Len(chaves) |-> MelhorRegistro(Grupo(dados, chaves[n]))]

(***************************************************************************)
(* Cross-Reference Joiner: _buscar_dados_completos                         *)
(***************************************************************************)
\* numeros_pedidos = list(set(...)): the wanted keys
NumerosPedidos(dados_bipagens) == {strip(str(Get(dados_bipagens[i], COL_PEDIDO, Vazio))) : i \in {j \in 1..Len(dados_bipagens) : Truthy(Get(dados_bipagens[j], COL_PEDIDO, PyNone))}}

\* the index pedidos_encontrados is a set of [k, registro] entries, at most one per key
Encontrado(encontrados, k) == \E e \in encontrados : e.k = k
RegistroDe(encontrados, k) == (CHOOSE e \in encontrados : e.k = k).registro

\* mutant: a later reference row of a key already in the index takes the place of the earlier one
RECURSIVE VarrerChunk_UltimoVence(_, _, _, _)
VarrerChunk_UltimoVence(chunk_data, j, wanted, encontrados) ==
  IF j > Len(chunk_data) THEN encontrados
  ELSE LET numero_pedido == strip(str(Get(chunk_data[j], COL_PEDIDO, Vazio)))
       IN IF numero_pedido \in wanted
          THEN LET novo == {e \in encontrados : e.k # numero_pedido} \cup {[k |-> numero_pedido, registro |-> chunk_data[j]]}
               IN IF Cardinality(novo) >= Cardinality(wanted) THEN novo
                  ELSE VarrerChunk_UltimoVence(chunk_data, j + 1, wanted, novo)
          ELSE VarrerChunk_UltimoVence(chunk_data, j + 1, wanted, encontrados)

\* for registro in chunk_data: ... break once every wanted key is found
RECURSIVE VarrerChunk(_, _, _, _)
VarrerChunk(chunk_data, j, wanted, encontrados) ==
  IF j > Len(chunk_data) THEN encontrados
  ELSE LET numero_pedido == strip(str(Get(chunk_data[j], COL_PEDIDO, Vazio)))
       IN IF numero_pedido \in wanted /\ ~Encontrado(encontrados, numero_pedido)
          THEN LET novo == encontrados \cup {[k |-> numero_pedido, registro |-> chunk_data[j]]}
               IN IF Cardinality(novo) >= Cardinality(wanted) THEN novo
                  ELSE VarrerChunk(chunk_data, j + 1, wanted, novo)
          ELSE VarrerChunk(chunk_data, j + 1, wanted, encontrados)

\* async for chunk_doc in collection_chunks.find({}): ... break once every wanted key is found
RECURSIVE VarrerChunks(_, _, _, _)
VarrerChunks(chunks, i, wanted, encontrados) ==
  IF i > Len(chunks) THEN encontrados
  ELSE LET novo == VarrerChunk(chunks[i].chunk_data, 1, wanted, encontrados)
       IN IF Cardinality(novo) >= Cardinality(wanted) THEN novo
          ELSE VarrerChunks(chunks, i + 1, wanted, novo)

PACOTE_PROBLEMATICO == <<"p", "a", "c", "o", "t", "e", " ", "p", "r", "o", "b", "l", "e", "m", "á", "t", "i", "c", "o">>
BIPE_DE_PACOTE_PROBLEMATICO == <<"b", "i", "p", "e", " ", "d", "e", " ">> \o PACOTE_PROBLEMATICO

\* VALIDACAO 1: both bases present and equal after strip().upper()
BasesIguais(base_escaneamento_final, base_entrega_chunks) ==
  Len(base_escaneamento_final) > 0 /\ Len(base_entrega_chunks) > 0
  /\ upper(strip(base_escaneamento_final)) = upper(strip(base_entrega_chunks))
\* VALIDACAO 2: digitizer and reference responsible both present and equal after strip().upper()
DigitalizadorIgualResponsavel(digitalizador, responsavel_entrega_chunks) ==
  Len(digitalizador) > 0 /\ Len(responsavel_entrega_chunks) > 0
  /\ upper(strip(digitalizador)) = upper(strip(responsavel_entrega_chunks))
\* VALIDACAO 3: the literal is searched, as written, in the upper-cased bipe type
TipoBipagemProblematico(tipo_bipagem) ==
  Len(tipo_bipagem) > 0
  /\ (Contains(upper(strip(tipo_bipagem)), BIPE_DE_PACOTE_PROBLEMATICO) \/ Contains(upper(strip(tipo_bipagem)), PACOTE_PROBLEMATICO))

\* mutant: the digitizer rule says the shipment is with a driver and names nobody
Decidir_SemNome(correio, digitalizador, tipo_bipagem, base_escaneamento_final, responsavel_entrega_chunks, base_entrega_chunks) ==
  IF BasesIguais(base_escaneamento_final, base_entrega_chunks)
  THEN IF ~(Len(correio) = 0 \/ Len(strip(correio)) = 0) THEN [esta_com_motorista |-> TRUE, responsavel_final |-> correio]
       ELSE IF DigitalizadorIgualResponsavel(digitalizador, responsavel_entrega_chunks)
       THEN [esta_com_motorista |-> TRUE, responsavel_final |-> <<>>]
       ELSE [esta_com_motorista |-> FALSE, responsavel_final |-> <<>>]
  ELSE [esta_com_motorista |-> FALSE, responsavel_final |-> <<>>]

\* mutant: the courier rule does not wait for the bases to be equal
Decidir_CorreioSemBases(correio, digitalizador, tipo_bipagem, base_escaneamento_final, responsavel_entrega_chunks, base_entrega_chunks) ==
  IF ~(Len(correio) = 0 \/ Len(strip(correio)) = 0) THEN [esta_com_motorista |-> TRUE, responsavel_final |-> correio]
  ELSE IF BasesIguais(base_escaneamento_final, base_entrega_chunks) /\ DigitalizadorIgualResponsavel(digitalizador, responsavel_entrega_chunks)
  THEN [esta_com_motorista |-> TRUE, responsavel_final |-> responsavel_entrega_chunks]
  ELSE [esta_com_motorista |-> FALSE, responsavel_final |-> <<>>]

\* the driver decision: [esta_com_motorista, responsavel_final]
Decidir(correio, digitalizador, tipo_bipagem, base_escaneamento_final, responsavel_entrega_chunks, base_entrega_chunks) ==
  LET correio_vazio == Len(correio) = 0 \/ Len(strip(correio)) = 0
  IN IF BasesIguais(base_escaneamento_final, base_entrega_chunks)
     THEN IF ~correio_vazio THEN [esta_com_motorista |-> TRUE, responsavel_final |-> correio]
          ELSE IF DigitalizadorIgualResponsavel(digitalizador, responsavel_entrega_chunks)
               THEN [esta_com_motorista |-> TRUE, responsavel_final |-> responsavel_entrega_chunks]
          ELSE IF TipoBipagemProblematico(tipo_bipagem)
               THEN [esta_com_motorista |-> TRUE, responsavel_final |-> IF Len(responsavel_entrega_chunks) > 0 THEN responsavel_entrega_chunks ELSE digitalizador]
          ELSE [esta_com_motorista |-> FALSE, responsavel_final |-> <<>>]
     ELSE [esta_com_motorista |-> FALSE, responsavel_final |-> <<>>]

\* dados_finais of one resolved row and its reference row
Mesclar(item_bipagem, pedido_encontrado) ==
  LET numero_pedido == strip(str(Get(item_bipagem, COL_PEDIDO, Vazio)))
      correio == strip(str(Get(item_bipagem, COL_CORREIO, Vazio)))
      responsavel_entrega_chunks == strip(str(Get(pedido_encontrado, COL_RESPONSAVEL, Vazio)))
      base_entrega_chunks == strip(str(Get(pedido_encontrado, COL_BASE_ENTREGA, Vazio)))
      digitalizador == strip(str(Get(item_bipagem, COL_DIGITALIZADOR, Vazio)))
      tipo_bipagem == strip(str(Get(item_bipagem, COL_TIPO, Vazio)))
      base_destino == strip(str(Get(item_bipagem, COL_BASE_DESTINO, Vazio)))
      base_escaneamento == strip(str(Get(item_bipagem, COL_BASE_ESCANEAMENTO, Vazio)))
      base_escaneamento_final == IF Len(base_escaneamento) > 0 THEN base_escaneamento ELSE base_destino
      dec == Decidir(correio, digitalizador, tipo_bipagem, base_escaneamento_final, responsavel_entrega_chunks, base_entrega_chunks)
      base_final == IF Len(base_entrega_chunks) > 0 THEN base_entrega_chunks ELSE base_escaneamento_final
      correio_final == IF dec.esta_com_motorista THEN dec.responsavel_final ELSE correio
  IN (COL_PEDIDO :> PyStr(numero_pedido)) @@ (COL_BASE_ENTREGA :> PyStr(base_final))
     @@ (COL_RESPONSAVEL :> PyStr(dec.responsavel_final))
     @@ (COL_MARCA :> Get(pedido_encontrado, COL_MARCA, Vazio))
     @@ (COL_CIDADE :> Get(pedido_encontrado, COL_CIDADE, Vazio))
     @@ (COL_TEMPO :> Get(item_bipagem, COL_TEMPO, PyNone))
     @@ (COL_CORREIO :> PyStr(correio_final)) @@ (COL_TIPO :> PyStr(tipo_bipagem))
     @@ (COL_DIGITALIZADOR :> PyStr(digitalizador))
     @@ (COL_BASE_DESTINO :> PyStr(base_escaneamento_final)) @@ (COL_BASE_ESCANEAMENTO :> PyStr(base_escaneamento_final))
     @@ ("_esta_com_motorista" :> PyBool(dec.esta_com_motorista))
     @@ ("_responsavel_entrega_chunks_original" :> PyStr(responsavel_entrega_chunks))

\* whether the merge loop keeps the row: a key, not a child, found in the index
Mesclavel(item_bipagem, encontrados) ==
  LET numero_pedido == strip(str(Get(item_bipagem, COL_PEDIDO, Vazio)))
  IN Len(numero_pedido) > 0 /\ ~is_child(numero_pedido) /\ Encontrado(encontrados, numero_pedido)

\* mutant: a row without a reference row is kept, merged with itself
buscar_dados_completos_SemDescartar(dados_bipagens, chunks) ==
  LET encontrados == VarrerChunks(chunks, 1, NumerosPedidos(dados_bipagens), {})
      mantidos == SelectSeq(dados_bipagens, LAMBDA item : Len(strip(str(Get(item, COL_PEDIDO, Vazio)))) > 0 /\ ~is_child(strip(str(Get(item, COL_PEDIDO, Vazio)))))
  IN [n \in 1..Len(mantidos) |->
        IF Encontrado(encontrados, strip(str(Get(mantidos[n], COL_PEDIDO, Vazio))))
        THEN Mesclar(mantidos[n], RegistroDe(encontrados, strip(str(Get(mantidos[n], COL_PEDIDO, Vazio)))))
        ELSE Mesclar(mantidos[n], mantidos[n])]

buscar_dados_completos(dados_bipagens, chunks) ==
  LET encontrados == VarrerChunks(chunks, 1, NumerosPedidos(dados_bipagens), {})
      mantidos == SelectSeq(dados_bipagens, LAMBDA item : Mesclavel(item, encontrados))
  IN [n \in 1..Len(mantidos) |-> Mesclar(mantidos[n], RegistroDe(encontrados, strip(str(Get(mantidos[n], COL_PEDIDO, Vazio)))))]

(***************************************************************************)
(* Aging Calculator: _calcular_tempo_parado                                *)
(***************************************************************************)
EXCEED == <<"E", "x", "c", "e", "e", "d", " ">>
DAYS_WITH_NO_TRACK == <<" ", "d", "a", "y", "s", " ", "w", "i", "t", "h", " ", "n", "o", " ", "t", "r", "a", "c", "k">>

\* item['Tempo de Pedido parado'] for a scan-time cell, at wall-clock time hoje
TempoParado(tempo_digitalizacao_str, hoje) ==
  LET tempo_digitalizacao ==
        IF ~Truthy(tempo_digitalizacao_str) THEN PyNone
        ELSE IF tempo_digitalizacao_str.t = "datetime" THEN tempo_digitalizacao_str
        ELSE IF tempo_digitalizacao_str.t = "str" THEN TryFormats(tempo_digitalizacao_str.v, 1)
        ELSE PyNone
  IN IF tempo_digitalizacao = PyNone THEN PyNone
     ELSE PyStr(EXCEED \o IntStr(TimedeltaDays(hoje, tempo_digitalizacao)) \o DAYS_WITH_NO_TRACK)

calcular_tempo_parado(dados, hoje) == [n \in 1..Len(dados) |-> Put(dados[n], COL_PARADO, TempoParado(Get(dados[n], COL_TEMPO, PyNone), hoje))]

(***************************************************************************)
(* Bulk Writer: the documents of _salvar_na_colecao and the d1_bipagens    *)
(* collection (a sequence: natural order, duplicates representable)        *)
(***************************************************************************)
\* tempo_digitalizacao as stored: a text in an accepted format becomes a datetime, anything else stays
ConverterTempo(tempo_digitalizacao) ==
  IF tempo_digitalizacao.t = "str" /\ TryFormats(tempo_digitalizacao.v, 1) # PyNone
  THEN TryFormats(tempo_digitalizacao.v, 1) ELSE tempo_digitalizacao

\* x or y on cell values
PyOr(x, y) == IF Truthy(x) THEN x ELSE y

\* the driver flag and value on the bulk path: the joiner's flag when present, else recomputed from the row
MotoristaBulk(item) ==
  IF "_esta_com_motorista" \in DOMAIN item
  THEN [esta |-> item["_esta_com_motorista"], responsavel |-> Get(item, COL_RESPONSAVEL, Vazio), unbound |-> FALSE]
  ELSE LET correio_valor == Get(item, COL_CORREIO, Vazio)
           correio_preenchido == Truthy(correio_valor) /\ Len(strip(str(correio_valor))) > 0
           base_entrega_valor == Get(item, COL_BASE_ENTREGA, Vazio)
           base_escaneamento_valor == PyOr(Get(item, COL_BASE_ESCANEAMENTO, Vazio), Get(item, COL_BASE_DESTINO, Vazio))
           bases_iguais == IF Truthy(base_escaneamento_valor) /\ Truthy(base_entrega_valor)
                           THEN upper(strip(str(base_escaneamento_valor))) = upper(strip(str(base_entrega_valor)))
                           ELSE TRUE
           esta == correio_preenchido /\ bases_iguais
       IN [esta |-> PyBool(esta), responsavel |-> IF esta THEN PyStr(strip(str(correio_valor))) ELSE Vazio, unbound |-> FALSE]

\* the same on the fallback path; unbound marks the branch that leaves responsavel_entrega_fallback unassigned
MotoristaFallback(item) ==
  IF "_esta_com_motorista" \in DOMAIN item
  THEN [esta |-> item["_esta_com_motorista"], responsavel |-> Get(item, COL_RESPONSAVEL, Vazio), unbound |-> FALSE]
  ELSE LET correio_valor == Get(item, COL_CORREIO, Vazio)
           base_entrega_valor == Get(item, COL_BASE_ENTREGA, Vazio)
           base_escaneamento_valor == PyOr(Get(item, COL_BASE_ESCANEAMENTO, Vazio), Get(item, COL_BASE_DESTINO, Vazio))
           correio_vazio == ~Truthy(correio_valor) \/ Len(strip(str(correio_valor))) = 0
           digitalizador == strip(str(Get(item, COL_DIGITALIZADOR, Vazio)))
           tipo_bipagem == strip(str(Get(item, COL_TIPO, Vazio)))
           responsavel_chunks == strip(str(PyOr(Get(item, "_responsavel_entrega_chunks_original", Vazio), Get(item, COL_RESPONSAVEL, Vazio))))
           bases_iguais == Truthy(base_escaneamento_valor) /\ Truthy(base_entrega_valor)
                           /\ upper(strip(str(base_escaneamento_valor))) = upper(strip(str(base_entrega_valor)))
           digitalizador_igual_responsavel == DigitalizadorIgualResponsavel(digitalizador, responsavel_chunks)
           tipo_bipagem_problematico == TipoBipagemProblematico(tipo_bipagem)
       IN IF ~bases_iguais THEN [esta |-> PyBool(FALSE), responsavel |-> Vazio, unbound |-> FALSE]
          ELSE IF ~correio_vazio THEN [esta |-> PyBool(TRUE), responsavel |-> PyStr(strip(str(correio_valor))), unbound |-> FALSE]
          ELSE IF digitalizador_igual_responsavel THEN [esta |-> PyBool(TRUE), responsavel |-> PyStr(responsavel_chunks), unbound |-> FALSE]
          ELSE IF tipo_bipagem_problematico
          THEN [esta |-> PyBool(TRUE), responsavel |-> PyStr(IF Len(responsavel_chunks) > 0 THEN responsavel_chunks ELSE digitalizador), unbound |-> FALSE]
          ELSE [esta |-> PyBool(FALSE), responsavel |-> Vazio, unbound |-> TRUE]

\* documento: the $set part of a write
Documento(item, motorista, hoje) ==
  [numero_pedido_jms |-> strip(str(Get(item, COL_PEDIDO, Vazio))),
   base_entrega |-> Get(item, COL_BASE_ENTREGA, Vazio),
   responsavel_entrega |-> motorista.responsavel,
   marca_assinatura |-> Get(item, COL_MARCA, Vazio),
   cidade_destino |-> Get(item, COL_CIDADE, Vazio),
   tempo_digitalizacao |-> ConverterTempo(Get(item, COL_TEMPO, PyNone)),
   tempo_pedido_parado |-> Get(item, COL_PARADO, Vazio),
   digitalizador |-> Get(item, COL_DIGITALIZADOR, Vazio),
   base_destino |-> Get(item, COL_BASE_DESTINO, Vazio),
   base_escaneamento |-> PyOr(Get(item, COL_BASE_ESCANEAMENTO, Vazio), Get(item, COL_BASE_DESTINO, Vazio)),
   esta_com_motorista |-> motorista.esta,
   updated_at |-> hoje]

\* a stored document: documento plus created_at
Armazenado(documento, created_at) ==
  [numero_pedido_jms |-> documento.numero_pedido_jms, base_entrega |-> documento.base_entrega,
   responsavel_entrega |-> documento.responsavel_entrega, marca_assinatura |-> documento.marca_assinatura,
   cidade_destino |-> documento.cidade_destino, tempo_digitalizacao |-> documento.tempo_digitalizacao,
   tempo_pedido_parado |-> documento.tempo_pedido_parado, digitalizador |-> documento.digitalizador,
   base_destino |-> documento.base_destino, base_escaneamento |-> documento.base_escaneamento,
   esta_com_motorista |-> documento.esta_com_motorista, updated_at |-> documento.updated_at,
   created_at |-> created_at]

\* the items of a batch the bulk loop turns into operations: a key, and not a child
Operavel(item) == Len(strip(str(Get(item, COL_PEDIDO, Vazio)))) > 0 /\ ~is_child(strip(str(Get(item, COL_PEDIDO, Vazio))))
BulkOperations(chunk, hoje) ==
  LET itens == SelectSeq(chunk, Operavel)
  IN [n \in 1..Len(itens) |-> Documento(itens[n], MotoristaBulk(itens[n]), hoje)]

\* position of the first document with the key, 0 when there is none (find_one, the filter of update_one)
Posicao(col, numero_pedido) ==
  IF \E i \in 1..Len(col) : col[i].numero_pedido_jms = numero_pedido
  THEN CHOOSE i \in 1..Len(col) : col[i].numero_pedido_jms = numero_pedido /\ \A j \in 1..(i - 1) : col[j].numero_pedido_jms # numero_pedido
  ELSE 0

\* mutant: $set leaves the old updated_at in place
SetDocumento_SemUpdatedAt(antigo, documento) == [Armazenado(documento, antigo.created_at) EXCEPT !.updated_at = antigo.updated_at]

\* mutant: created_at written by $set as well
SetDocumento_ComCreatedAt(antigo, documento) == Armazenado(documento, documento.updated_at)

\* {'$set': documento}: every field but created_at is overwritten
SetDocumento(antigo, documento) == Armazenado(documento, antigo.created_at)

\* mutant: an upsert whose filter never matches
UpsertOne_SemFiltro(col, documento) ==
  [col |-> Append(col, Armazenado(documento, documento.updated_at)), upserted |-> 1, modified |-> 0]

\* UpdateOne(filter by key, {$set: documento, $setOnInsert: {created_at}}, upsert=True) on the collection:
\* [col, upserted, modified]
UpsertOne(col, documento) ==
  LET i == Posicao(col, documento.numero_pedido_jms)
  IN IF i = 0
     THEN [col |-> Append(col, Armazenado(documento, documento.updated_at)), upserted |-> 1, modified |-> 0]
     ELSE [col |-> [col EXCEPT ![i] = SetDocumento(col[i], documento)], upserted |-> 0,
           modified |-> IF SetDocumento(col[i], documento) = col[i] THEN 0 ELSE 1]

\* bulk_write(ops, ordered=False) restricted to the operations in `aplicadas`: the collection and the result counts
RECURSIVE BulkWrite(_, _, _, _)
BulkWrite(acc, ops, n, aplicadas) ==
  IF n > Len(ops) THEN acc
  ELSE IF n \in aplicadas
       THEN LET u == UpsertOne(acc.col, ops[n])
            IN BulkWrite([col |-> u.col, upserted |-> acc.upserted + u.upserted, modified |-> acc.modified + u.modified], ops, n + 1, aplicadas)
       ELSE BulkWrite(acc, ops, n + 1, aplicadas)

\* whether a unique index on numero_pedido_jms can be built / is respected
SemDuplicados(col) == \A i, j \in 1..Len(col) : col[i].numero_pedido_jms = col[j].numero_pedido_jms => i = j

(***************************************************************************)
(* Spreadsheet reading and validation: upload_bipagens and the head of     *)
(* process_file                                                            *)
(***************************************************************************)
\* bounds of the model
MaxRuns == 2
MaxRelogio == 4
\* rows read per pass of the reading loop (batch_size, scaled down)
batch_size == 2
\* records per bulk_write (chunk_size, scaled down)
chunk_size == 2

Runs == 1..MaxRuns

EXT_XLSX == <<".", "x", "l", "s", "x">>
EXT_XLS == <<".", "x", "l", "s">>
REQUIRED_COLUMNS == <<COL_PEDIDO, COL_TEMPO, COL_CORREIO, COL_TIPO>>

FormatoSuportado(filename) == endswith(lower(filename), EXT_XLSX) \/ endswith(lower(filename), EXT_XLS)
MissingColumns(headers) == SelectSeq(REQUIRED_COLUMNS, LAMBDA col : ~(\E i \in 1..Len(headers) : headers[i] = col))

\* row_dict: each non-empty header with the cell under it (the last one wins for a repeated header)
RowDict(headers, row) ==
  [h \in {headers[i] : i \in {j \in 1..Len(headers) : headers[j] # ""}} |->
     row[CHOOSE i \in 1..Len(headers) : headers[i] = h /\ \A j \in (i + 1)..Len(headers) : headers[j] # h]]

\* one pass of iter_rows(min_row=k, max_row=end_row): end_row is inclusive, rows past max_row are empty
RECURSIVE LerLote(_, _, _, _)
LerLote(sheet, k, end_row, acc) ==
  IF k > end_row THEN acc
  ELSE IF k - 1 > Len(sheet.rows) \/ ~Truthy(sheet.rows[k - 1][1]) THEN LerLote(sheet, k + 1, end_row, acc)
  ELSE LET row_dict == RowDict(sheet.headers, sheet.rows[k - 1])
       IN IF Truthy(Get(row_dict, COL_PEDIDO, PyNone))
          THEN LerLote(sheet, k + 1, end_row, Append(acc, row_dict))
          ELSE LerLote(sheet, k + 1, end_row, acc)

\* for start_row in range(2, sheet.max_row + 1, batch_size)
RECURSIVE LerLinhas(_, _, _)
LerLinhas(sheet, start_row, acc) ==
  LET max_row == Len(sheet.rows) + 1
      end_row == IF start_row + batch_size < max_row + 1 THEN start_row + batch_size ELSE max_row + 1
  IN IF start_row > max_row THEN acc
     ELSE LerLinhas(sheet, start_row + batch_size, LerLote(sheet, start_row, end_row, acc))

DadosBrutos(f) == LerLinhas(f, 2, <<>>)

\* mutant: the required columns are not checked
Validar_SemColunas(f) ==
  IF Len(f.filename) = 0 THEN [status |-> 400, detail |-> "Nenhum arquivo foi enviado", missing |-> <<>>]
  ELSE IF ~FormatoSuportado(f.filename) THEN [status |-> 400, detail |-> "Formato de arquivo nao suportado. Use .xlsx ou .xls", missing |-> <<>>]
  ELSE IF f.vazio THEN [status |-> 400, detail |-> "Arquivo vazio", missing |-> <<>>]
  ELSE PyNone

\* the rejection of an upload, or PyNone when it passes every check
Validar(f) ==
  IF Len(f.filename) = 0 THEN [status |-> 400, detail |-> "Nenhum arquivo foi enviado", missing |-> <<>>]
  ELSE IF ~FormatoSuportado(f.filename) THEN [status |-> 400, detail |-> "Formato de arquivo nao suportado. Use .xlsx ou .xls", missing |-> <<>>]
  ELSE IF f.vazio THEN [status |-> 400, detail |-> "Arquivo vazio", missing |-> <<>>]
  ELSE IF Len(MissingColumns(f.headers)) > 0 THEN [status |-> 500, detail |-> "Erro interno: Colunas obrigatorias nao encontradas", missing |-> MissingColumns(f.headers)]
  ELSE PyNone

(***************************************************************************)
(* Inputs                                                                  *)
(***************************************************************************)
K123 == <<"1", "2", "3">>
K123456789 == <<"1", "2", "3", "4", "5", "6", "7", "8", "9">>
K456 == <<"4", "5", "6">>
K123_001 == <<"1", "2", "3", "-", "0", "0", "1">>
K123p2 == <<"1", "2", "3", ".", "2">>
K123u9 == <<"1", "2", "3", "_", "9">>
K123A == <<"1", "2", "3", "A">>
K123_ == <<"1", "2", "3", "-">>
K12a_acento == <<"1", "2", "á">>
T_0101_10 == <<"2", "0", "2", "4", "-", "0", "1", "-", "0", "1", " ", "1", "0", ":", "0", "0", ":", "0", "0">>
T_0102_09 == <<"2", "0", "2", "4", "-", "0", "1", "-", "0", "2", " ", "0", "9", ":", "0", "0", ":", "0", "0">>
T_0102 == <<"2", "0", "2", "4", "-", "0", "1", "-", "0", "2">>
T_BR_0103_08 == <<"0", "3", "/", "0", "1", "/", "2", "0", "2", "4", " ", "0", "8", ":", "0", "0", ":", "0", "0">>
T_BR_0101 == <<"0", "1", "/", "0", "1", "/", "2", "0", "2", "4">>
T_ISO == <<"2", "0", "2", "4", "-", "0", "1", "-", "0", "2", "T", "0", "9", ":", "0", "0", ":", "0", "0">>
ANA == <<"A", "N", "A">>
BIA == <<"B", "I", "A">>
JOAO_MAIUSC == <<"J", "O", "A", "O">>
Joao == <<"J", "o", "a", "o">>
MARIA == <<"M", "A", "R", "I", "A">>
SP1 == <<"S", "P", "1">>
sp1_espacos == <<" ", "s", "p", "1", " ">>
RJ2 == <<"R", "J", "2">>
BIPE_ENTRADA == <<"B", "i", "p", "e", " ", "d", "e", " ", "e", "n", "t", "r", "a", "d", "a">>
BIPE_PROBLEMATICO == <<"B", "i", "p", "e", " ", "d", "e", " ", "p", "a", "c", "o", "t", "e", " ", "p", "r", "o", "b", "l", "e", "m", "á", "t", "i", "c", "o">>
ASSINADO == <<"A", "s", "s", "i", "n", "a", "d", "o">>
CAMPINAS == <<"C", "a", "m", "p", "i", "n", "a", "s">>
BIPAGENS_XLSX == <<"b", "i", "p", "a", "g", "e", "n", "s", ".", "x", "l", "s", "x">>
BIPAGENS_XLS_MAIUSC == <<"B", "I", "P", "A", "G", "E", "N", "S", ".", "X", "L", "S">>
BIPAGENS_CSV == <<"b", "i", "p", "a", "g", "e", "n", "s", ".", "c", "s", "v">>

HEADERS == <<COL_PEDIDO, COL_TEMPO, COL_CORREIO, COL_TIPO, COL_DIGITALIZADOR, COL_BASE_ESCANEAMENTO>>
HEADERS_SEM_TIPO == <<COL_PEDIDO, COL_TEMPO, COL_DIGITALIZADOR, COL_BASE_ESCANEAMENTO>>

Arquivo(filename, vazio, headers, rows) == [filename |-> filename, vazio |-> vazio, headers |-> headers, rows |-> rows]
\* a row of the reference table
Referencia(pedido, responsavel, base) ==
  (COL_PEDIDO :> pedido) @@ (COL_RESPONSAVEL :> responsavel) @@ (COL_BASE_ENTREGA :> base) @@ (COL_MARCA :> PyStr(ASSINADO)) @@ (COL_CIDADE :> PyStr(CAMPINAS))
ChunkDoc(n, chunk_data) == [main_document_id |-> 1, chunk_number |-> n, chunk_data |-> chunk_data]

\* the reference store of the ingestion specifications: 123 and 123456789 are known, 456 is not;
\* the child 123-001 is in the reference table too
CHUNKS_BASE == <<
  ChunkDoc(1, <<Referencia(PyStr(K123), PyStr(Joao), PyStr(SP1)), Referencia(PyStr(K123_001), PyStr(Joao), PyStr(SP1))>>),
  ChunkDoc(2, <<Referencia(PyInt(123456789), PyStr(MARIA), PyStr(SP1)), Referencia(PyStr(K123), PyStr(MARIA), PyStr(RJ2))>>) >>

\* the uploads of the ingestion specifications
ARQ_A == Arquivo(BIPAGENS_XLSX, FALSE, HEADERS, <<
  <<PyStr(K123), PyStr(T_0101_10), PyStr(ANA), PyStr(BIPE_ENTRADA), PyStr(ANA), PyStr(SP1)>>,
  <<PyStr(K123), PyStr(T_0102_09), PyStr(<<>>), PyStr(BIPE_ENTRADA), PyStr(JOAO_MAIUSC), PyStr(sp1_espacos)>> >>)
ARQ_B == Arquivo(BIPAGENS_XLS_MAIUSC, FALSE, HEADERS, <<
  <<PyInt(123), PyStr(T_BR_0103_08), PyStr(BIA), PyStr(BIPE_ENTRADA), PyNone, PyStr(SP1)>>,
  <<PyInt(123456789), PyDatetime(ymd2ord(2024, 1, 1), 0), PyNone, PyStr(BIPE_PROBLEMATICO), PyStr(JOAO_MAIUSC), PyStr(RJ2)>> >>)
ARQ_B1 == Arquivo(BIPAGENS_XLS_MAIUSC, FALSE, HEADERS, << <<PyInt(123), PyStr(T_BR_0103_08), PyStr(BIA), PyStr(BIPE_ENTRADA), PyNone, PyStr(SP1)>> >>)
ARQ_C == Arquivo(BIPAGENS_XLSX, FALSE, HEADERS, <<
  <<PyStr(K123_001), PyStr(T_0102_09), PyStr(ANA), PyStr(BIPE_ENTRADA), PyStr(ANA), PyStr(SP1)>>,
  <<PyStr(K456), PyStr(T_0102_09), PyStr(ANA), PyStr(BIPE_ENTRADA), PyStr(ANA), PyStr(SP1)>>,
  <<PyStr(K123456789), PyStr(T_0102), PyStr(ANA), PyStr(BIPE_ENTRADA), PyStr(ANA), PyStr(SP1)>> >>)
ARQ_D == Arquivo(BIPAGENS_XLSX, FALSE, HEADERS, <<
  <<PyStr(K123), PyStr(T_0102_09), PyStr(BIA), PyStr(BIPE_ENTRADA), PyStr(ANA), PyStr(SP1)>>,
  <<PyStr(K456), PyStr(T_ISO), PyStr(ANA), PyStr(BIPE_ENTRADA), PyStr(ANA), PyStr(SP1)>>,
  <<PyStr(K123456789), PyStr(T_BR_0101), PyNone, PyStr(BIPE_ENTRADA), PyStr(MARIA), PyStr(SP1)>> >>)
ARQ_EXTENSAO == Arquivo(BIPAGENS_CSV, FALSE, HEADERS, ARQ_A.rows)
ARQ_VAZIO == Arquivo(BIPAGENS_XLSX, TRUE, <<>>, <<>>)
ARQ_SEM_COLUNAS == Arquivo(BIPAGENS_XLSX, FALSE, HEADERS_SEM_TIPO, << <<PyStr(K123), PyStr(T_0102_09), PyStr(ANA), PyStr(SP1)>> >>)

\* scans of the shipments 1, 2 and 3 of the chunked upload's reference sheets
ARQ_P == Arquivo(BIPAGENS_XLSX, FALSE, HEADERS, <<
  <<PyInt(1), PyStr(T_0101_10), PyStr(ANA), PyStr(BIPE_ENTRADA), PyStr(ANA), PyStr(SP1)>>,
  <<PyInt(2), PyStr(T_0102_09), PyNone, PyStr(BIPE_ENTRADA), PyStr(ANA), PyStr(SP1)>>,
  <<PyInt(3), PyStr(T_BR_0103_08), PyStr(BIA), PyStr(BIPE_ENTRADA), PyStr(ANA), PyStr(SP1)>> >>)

\* the uploads a specification draws from, by name
MaxLinhas == 2
RECURSIVE Planilhas(_, _)
Planilhas(linhas, n) == IF n = 0 THEN {<<>>} ELSE {Append(p, l) : p \in Planilhas(linhas, n - 1), l \in linhas}
ArquivosDe(linhas) == {Arquivo(BIPAGENS_XLSX, FALSE, HEADERS, rows) : rows \in UNION {Planilhas(linhas, n) : n \in 1..MaxLinhas}}

\* rows of two shipments at several scan times, with and without a courier
LINHAS_RESOLVER ==
  {<<id, t, c, PyStr(BIPE_ENTRADA), PyStr(ANA), PyStr(SP1)>> :
     id \in {PyStr(K123), PyInt(123), PyStr(K456)},
     t \in {PyStr(T_0101_10), PyDatetime(ymd2ord(2024, 1, 2), 0), PyStr(T_BR_0103_08), PyStr(T_ISO), PyNone, PyInt(20240102)},
     c \in {PyNone, PyStr(ANA)}}
\* rows whose identifiers have and have not the shape of a child
LINHAS_FILHOS ==
  {<<id, PyStr(T_0102_09), PyStr(ANA), PyStr(BIPE_ENTRADA), PyStr(ANA), PyStr(SP1)>> :
     id \in {PyStr(K123), PyInt(123456789), PyStr(K123_001), PyStr(K123p2), PyStr(K123u9), PyStr(K123A),
             PyStr(K123_), PyStr(K12a_acento)}}
\* one row of shipment 123 over the cells the driver decision reads
ARQUIVOS_JOIN ==
  {Arquivo(BIPAGENS_XLSX, FALSE, HEADERS, << <<PyStr(K123), PyStr(T_0102_09), c, t, d, b>> >>) :
     c \in {PyNone, PyStr(<<>>), PyStr(<<" ">>), PyStr(ANA)},
     t \in {PyNone, PyStr(BIPE_ENTRADA), PyStr(BIPE_PROBLEMATICO), PyStr(upper(BIPE_PROBLEMATICO))},
     d \in {PyNone, PyStr(JOAO_MAIUSC), PyStr(ANA)},
     b \in {PyNone, PyStr(SP1), PyStr(sp1_espacos), PyStr(RJ2)}}

Uploads(p) ==
  CASE p = "concorrente" -> {ARQ_A, ARQ_B1}
    [] p = "sequencial" -> {ARQ_A, ARQ_B, ARQ_C, ARQ_D, ARQ_EXTENSAO, ARQ_VAZIO, ARQ_SEM_COLUNAS}
    [] p = "resolver" -> ArquivosDe(LINHAS_RESOLVER)
    [] p = "filhos" -> ArquivosDe(LINHAS_FILHOS)
    [] p = "join" -> ARQUIVOS_JOIN
    [] p = "pipeline" -> {ARQ_P}

(***************************************************************************)
(* State                                                                   *)
(***************************************************************************)
VARIABLES
  pool,          \* which uploads a request may carry (a name of Uploads)
  modo,          \* [runs: how many requests arrive, sequencial: whether one ends before the next starts]
  relogio,       \* wall clock, in ticks of six hours
  d1_chunks,     \* the reference chunk store, in scan order
  d1_bipagens,   \* the target collection
  indice_unico,  \* whether the unique index on numero_pedido_jms exists
  pc,            \* where each request stands
  arquivo,       \* the upload of each request
  linhas_lidas,  \* len(dados_brutos)
  deduplicados,  \* dados_deduplicados
  finais,        \* dados_finais
  hoje,          \* hoje of _salvar_na_colecao
  chunk_idx,     \* first position of the current batch
  fb_i,          \* position in the batch of the per-record fallback
  existing,      \* result of the fallback's find_one
  saved,
  updated,
  resposta,      \* what the request got back
  obs,           \* observer: what each request did, for stating the properties
  d1_main,       \* the batch ledger of the chunked upload (d1_main), in insertion order
  envio,         \* the locals of upload_d1_excel and _save_chunks_optimized
  envio_obs,     \* observer: what the chunked upload did
  motoristas_status,  \* the driver-status table of the route under study
  status_obs     \* observer: the last request on the driver-status table

vars == <<pool, modo, relogio, d1_chunks, d1_bipagens, indice_unico, pc, arquivo, linhas_lidas, deduplicados, finais, hoje, chunk_idx, fb_i, existing, saved, updated, resposta, obs, d1_main, envio, envio_obs, motoristas_status, status_obs>>

\* the state of the chunked upload and of the driver-status table
varsEnvio == <<d1_main, envio, envio_obs>>
varsStatus == <<motoristas_status, status_obs>>
varsIngestao == <<pool, modo, relogio, d1_bipagens, indice_unico, pc, arquivo, linhas_lidas, deduplicados, finais, hoje, chunk_idx, fb_i, existing, saved, updated, resposta, obs>>

\* datetime.now() at tick c: tick 0 is 2024-01-02 09:00:00
Now(c) == LET total == 9 * 3600 + c * 6 * 3600 IN PyDatetime(ymd2ord(2024, 1, 2) + total \div 86400, total % 86400)

SemResposta == [status |-> 0, detail |-> "", missing |-> <<>>]
Obs0 == [antes |-> {}, gravados |-> {}, perdidos |-> {}, recusados |-> {}, lotes |-> <<>>, tent |-> 0, dsv |-> 0, dup |-> 0, dfl |-> 0, final |-> <<>>,
         em_bulk |-> <<>>, individuais |-> <<>>, bulk_falhou |-> {}]

Chunk(r) == SubSeq(finais[r], chunk_idx[r], IF chunk_idx[r] + chunk_size - 1 < Len(finais[r]) THEN chunk_idx[r] + chunk_size - 1 ELSE Len(finais[r]))
\* the places in dados of the items of the current batch that bulk_write carries
NoBulk(r) == SelectSeq([n \in 1..Len(Chunk(r)) |-> chunk_idx[r] + n - 1], LAMBDA q : Operavel(finais[r][q]))
Terminados == {r \in Runs : pc[r] \in {"done", "rejected"}}
EmCurso == {r \in Runs : pc[r] \notin {"idle", "done", "rejected"}}

(***************************************************************************)
(* Operations                                                              *)
(***************************************************************************)
\* POST /bipagens/upload up to the first store access: validation, reading, resolution
UploadBipagens(r, f) ==
  /\ pc[r] = "idle"
  /\ r <= modo.runs
  /\ modo.sequencial => EmCurso = {}
  /\ pool = "pipeline" => envio.pc = "done"
  /\ \A q \in Runs : q < r => pc[q] # "idle"
  /\ arquivo' = [arquivo EXCEPT ![r] = f]
  /\ obs' = [obs EXCEPT ![r].antes = Terminados]
  /\ IF Validar(f) # PyNone
     THEN /\ pc' = [pc EXCEPT ![r] = "rejected"]
          /\ resposta' = [resposta EXCEPT ![r] = Validar(f)]
          /\ UNCHANGED <<linhas_lidas, deduplicados>>
     ELSE /\ pc' = [pc EXCEPT ![r] = "buscar"]
          /\ linhas_lidas' = [linhas_lidas EXCEPT ![r] = Len(DadosBrutos(f))]
          /\ deduplicados' = [deduplicados EXCEPT ![r] = deduplicar_por_data_recente(DadosBrutos(f))]
          /\ UNCHANGED resposta
  /\ UNCHANGED <<varsEnvio, varsStatus, pool, modo, relogio, d1_chunks, d1_bipagens, indice_unico, finais, hoje, chunk_idx, fb_i, existing, saved, updated>>

\* _buscar_dados_completos: one pass over the reference chunk store
BuscarDadosCompletos(r) ==
  /\ pc[r] = "buscar"
  /\ finais' = [finais EXCEPT ![r] = buscar_dados_completos(deduplicados[r], d1_chunks)]
  /\ pc' = [pc EXCEPT ![r] = "calcular"]
  /\ UNCHANGED <<varsEnvio, varsStatus, pool, modo, relogio, d1_chunks, d1_bipagens, indice_unico, arquivo, linhas_lidas, deduplicados, hoje, chunk_idx, fb_i, existing, saved, updated, resposta, obs>>

\* _calcular_tempo_parado at the current wall-clock time
CalcularTempoParado(r) ==
  /\ pc[r] = "calcular"
  /\ finais' = [finais EXCEPT ![r] = calcular_tempo_parado(finais[r], Now(relogio))]
  /\ hoje' = [hoje EXCEPT ![r] = Now(relogio)]
  /\ relogio' = relogio + 1
  /\ pc' = [pc EXCEPT ![r] = "indice"]
  /\ UNCHANGED <<varsEnvio, varsStatus, pool, modo, d1_chunks, d1_bipagens, indice_unico, arquivo, linhas_lidas, deduplicados, chunk_idx, fb_i, existing, saved, updated, resposta, obs>>

\* head of _salvar_na_colecao: create_index inside try/except, then hoje = datetime.now()
CriarIndice(r) ==
  /\ pc[r] = "indice"
  /\ \/ SemDuplicados(d1_bipagens) /\ indice_unico' = TRUE
     \/ UNCHANGED indice_unico
  /\ hoje' = [hoje EXCEPT ![r] = Now(relogio)]
  /\ relogio' = relogio + 1
  /\ chunk_idx' = [chunk_idx EXCEPT ![r] = 1]
  /\ pc' = [pc EXCEPT ![r] = IF Len(finais[r]) = 0 THEN "retornar" ELSE "bulk"]
  /\ UNCHANGED <<varsEnvio, varsStatus, pool, modo, d1_chunks, d1_bipagens, arquivo, linhas_lidas, deduplicados, finais, fb_i, existing, saved, updated, resposta, obs>>

\* end of a batch: the next batch, or the return
ProximoLote(r) == IF chunk_idx[r] + chunk_size > Len(finais[r]) THEN "retornar" ELSE "bulk"

\* bulk_write succeeds: every operation of the batch is applied
BulkWriteOk(r) ==
  /\ pc[r] = "bulk"
  /\ LET ops == BulkOperations(Chunk(r), hoje[r])
         res == BulkWrite([col |-> d1_bipagens, upserted |-> 0, modified |-> 0], ops, 1, 1..Len(ops))
     IN /\ d1_bipagens' = res.col
        /\ saved' = [saved EXCEPT ![r] = @ + res.upserted]
        /\ updated' = [updated EXCEPT ![r] = @ + res.modified]
        /\ obs' = [obs EXCEPT ![r].gravados = @ \cup {ops[n].numero_pedido_jms : n \in 1..Len(ops)},
                              ![r].lotes = Append(@, [n |-> Len(Chunk(r)), via |-> "bulk", tent |-> 0, dsv |-> res.upserted, dup |-> res.modified, dfl |-> 0]),
                              ![r].em_bulk = @ \o NoBulk(r)]
  /\ pc' = [pc EXCEPT ![r] = ProximoLote(r)]
  /\ chunk_idx' = [chunk_idx EXCEPT ![r] = @ + chunk_size]
  /\ UNCHANGED <<varsEnvio, varsStatus, pool, modo, relogio, d1_chunks, indice_unico, arquivo, linhas_lidas, deduplicados, finais, hoje, fb_i, existing, resposta>>

\* bulk_write raises: unordered, so any part of the batch may have been applied; the fallback starts
BulkWriteRaise(r) ==
  /\ pc[r] = "bulk"
  /\ LET ops == BulkOperations(Chunk(r), hoje[r])
     IN /\ Len(ops) > 0
        /\ \E aplicadas \in SUBSET (1..Len(ops)) :
             /\ d1_bipagens' = BulkWrite([col |-> d1_bipagens, upserted |-> 0, modified |-> 0], ops, 1, aplicadas).col
             /\ obs' = [obs EXCEPT ![r].gravados = @ \cup {ops[n].numero_pedido_jms : n \in aplicadas},
                                   ![r].em_bulk = @ \o NoBulk(r), ![r].bulk_falhou = @ \cup {chunk_idx[r]}]
  /\ pc' = [pc EXCEPT ![r] = "fb_find"]
  /\ fb_i' = [fb_i EXCEPT ![r] = 1]
  /\ UNCHANGED <<varsEnvio, varsStatus, pool, modo, relogio, d1_chunks, indice_unico, arquivo, linhas_lidas, deduplicados, finais, hoje, chunk_idx, existing, saved, updated, resposta>>

\* mutant: the fallback counts a record it updated as inserted
FimItem_ContaInserido(r, tentou, sv, up, fl, chave, escreveu) ==
  LET o == [obs[r] EXCEPT !.tent = @ + tentou, !.dsv = @ + sv, !.dup = @ + up, !.dfl = @ + (IF fl > 0 THEN 1 ELSE 0),
                          !.individuais = IF escreveu = 1 THEN Append(@, chunk_idx[r] + fb_i[r] - 1) ELSE @,
                          !.gravados = IF sv + up > 0 THEN @ \cup {chave} ELSE @,
                          !.perdidos = IF fl > 0 THEN @ \cup {chave} ELSE @,
                          !.recusados = IF fl = 2 THEN @ \cup {chave} ELSE @]
      ultimo == fb_i[r] >= Len(Chunk(r))
  IN /\ saved' = [saved EXCEPT ![r] = @ + sv + up]
     /\ updated' = updated
     /\ fb_i' = [fb_i EXCEPT ![r] = IF ultimo THEN 0 ELSE @ + 1]
     /\ pc' = [pc EXCEPT ![r] = IF ultimo THEN ProximoLote(r) ELSE "fb_find"]
     /\ chunk_idx' = [chunk_idx EXCEPT ![r] = IF ultimo THEN @ + chunk_size ELSE @]
     /\ obs' = [obs EXCEPT ![r] = IF ultimo
                                  THEN [o EXCEPT !.lotes = Append(@, [n |-> Len(Chunk(r)), via |-> "fallback", tent |-> o.tent, dsv |-> o.dsv, dup |-> o.dup, dfl |-> o.dfl]),
                                                 !.tent = 0, !.dsv = 0, !.dup = 0, !.dfl = 0]
                                  ELSE o]

\* mutant: an item whose individual write failed is tried again
FimItem_Repete(r, tentou, sv, up, fl, chave, escreveu) ==
  LET o == [obs[r] EXCEPT !.tent = @ + tentou, !.dsv = @ + sv, !.dup = @ + up, !.dfl = @ + (IF fl > 0 THEN 1 ELSE 0),
                          !.individuais = IF escreveu = 1 THEN Append(@, chunk_idx[r] + fb_i[r] - 1) ELSE @,
                          !.gravados = IF sv + up > 0 THEN @ \cup {chave} ELSE @]
      ultimo == fb_i[r] >= Len(Chunk(r))
      repete == fl > 0 /\ escreveu = 1
  IN /\ saved' = [saved EXCEPT ![r] = @ + sv]
     /\ updated' = [updated EXCEPT ![r] = @ + up]
     /\ fb_i' = [fb_i EXCEPT ![r] = IF repete THEN @ ELSE IF ultimo THEN 0 ELSE @ + 1]
     /\ pc' = [pc EXCEPT ![r] = IF repete THEN "fb_find" ELSE IF ultimo THEN ProximoLote(r) ELSE "fb_find"]
     /\ chunk_idx' = [chunk_idx EXCEPT ![r] = IF ultimo /\ ~repete THEN @ + chunk_size ELSE @]
     /\ obs' = [obs EXCEPT ![r] = o]

\* the fallback loop moves past one item: sv/up are what the item added to saved and updated,
\* fl is 0 for no failure, 1 for an exception that is logged, 2 for a DuplicateKeyError that is logged,
\* escreveu is 1 when update_one or insert_one was called for the item
FimItem(r, tentou, sv, up, fl, chave, escreveu) ==
  LET o == [obs[r] EXCEPT !.tent = @ + tentou, !.dsv = @ + sv, !.dup = @ + up, !.dfl = @ + (IF fl > 0 THEN 1 ELSE 0),
                          !.individuais = IF escreveu = 1 THEN Append(@, chunk_idx[r] + fb_i[r] - 1) ELSE @,
                          !.gravados = IF sv + up > 0 THEN @ \cup {chave} ELSE @,
                          !.perdidos = IF fl > 0 THEN @ \cup {chave} ELSE @,
                          !.recusados = IF fl = 2 THEN @ \cup {chave} ELSE @]
      ultimo == fb_i[r] >= Len(Chunk(r))
  IN /\ saved' = [saved EXCEPT ![r] = @ + sv]
     /\ updated' = [updated EXCEPT ![r] = @ + up]
     /\ fb_i' = [fb_i EXCEPT ![r] = IF ultimo THEN 0 ELSE @ + 1]
     /\ pc' = [pc EXCEPT ![r] = IF ultimo THEN ProximoLote(r) ELSE "fb_find"]
     /\ chunk_idx' = [chunk_idx EXCEPT ![r] = IF ultimo THEN @ + chunk_size ELSE @]
     /\ obs' = [obs EXCEPT ![r] = IF ultimo
                                  THEN [o EXCEPT !.lotes = Append(@, [n |-> Len(Chunk(r)), via |-> "fallback", tent |-> o.tent, dsv |-> o.dsv, dup |-> o.dup, dfl |-> o.dfl]),
                                                 !.tent = 0, !.dsv = 0, !.dup = 0, !.dfl = 0]
                                  ELSE o]

ItemFallback(r) == Chunk(r)[fb_i[r]]
ChaveFallback(r) == strip(str(Get(ItemFallback(r), COL_PEDIDO, Vazio)))

\* fallback, first await of an item: find_one by key
FallbackFindOne(r) ==
  /\ pc[r] = "fb_find"
  /\ IF Len(ChaveFallback(r)) = 0
     THEN FimItem(r, 0, 0, 0, 0, ChaveFallback(r), 0) /\ UNCHANGED existing
     ELSE IF MotoristaFallback(ItemFallback(r)).unbound
     THEN FimItem(r, 1, 0, 0, 1, ChaveFallback(r), 0) /\ UNCHANGED existing
     ELSE \/ /\ existing' = [existing EXCEPT ![r] = Posicao(d1_bipagens, ChaveFallback(r)) # 0]
             /\ pc' = [pc EXCEPT ![r] = "fb_write"]
             /\ UNCHANGED <<saved, updated, fb_i, chunk_idx, obs>>
          \/ FimItem(r, 1, 0, 0, 1, ChaveFallback(r), 0) /\ UNCHANGED existing
  /\ UNCHANGED <<varsEnvio, varsStatus, pool, modo, relogio, d1_chunks, d1_bipagens, indice_unico, arquivo, linhas_lidas, deduplicados, finais, hoje, resposta>>

\* insert_one: appended, unless the unique index rejects the key (DuplicateKeyError)
InsertOne(col, documento, unico) ==
  IF unico /\ Posicao(col, documento.numero_pedido_jms) # 0
  THEN [col |-> col, ok |-> FALSE]
  ELSE [col |-> Append(col, Armazenado(documento, documento.updated_at)), ok |-> TRUE]

\* update_one(filter by key, {$set: documento}): the first match, if any, is overwritten
UpdateOne(col, documento) ==
  LET i == Posicao(col, documento.numero_pedido_jms)
  IN IF i = 0 THEN col ELSE [col EXCEPT ![i] = SetDocumento(col[i], documento)]

\* fallback, second await of an item: update_one when find_one saw a document, insert_one otherwise
FallbackWrite(r) ==
  /\ pc[r] = "fb_write"
  /\ LET documento == Documento(ItemFallback(r), MotoristaFallback(ItemFallback(r)), hoje[r])
     IN \/ IF existing[r]
           THEN /\ d1_bipagens' = UpdateOne(d1_bipagens, documento)
                /\ FimItem(r, 1, 0, 1, 0, ChaveFallback(r), 1)
           ELSE /\ d1_bipagens' = InsertOne(d1_bipagens, documento, indice_unico).col
                /\ IF InsertOne(d1_bipagens, documento, indice_unico).ok
                   THEN FimItem(r, 1, 1, 0, 0, ChaveFallback(r), 1)
                   ELSE FimItem(r, 1, 0, 0, 2, ChaveFallback(r), 1)
        \/ /\ UNCHANGED d1_bipagens
           /\ FimItem(r, 1, 0, 0, 1, ChaveFallback(r), 1)
  /\ existing' = [existing EXCEPT ![r] = FALSE]
  /\ UNCHANGED <<varsEnvio, varsStatus, pool, modo, relogio, d1_chunks, indice_unico, arquivo, linhas_lidas, deduplicados, finais, hoje, resposta>>

\* process_file returns its summary and the route answers 200
Retornar(r) ==
  /\ pc[r] = "retornar"
  /\ pc' = [pc EXCEPT ![r] = "done"]
  /\ resposta' = [resposta EXCEPT ![r] = [status |-> 200, success |-> TRUE, total_linhas_lidas |-> linhas_lidas[r],
                                          total_deduplicados |-> Len(deduplicados[r]), total_processados |-> Len(finais[r]),
                                          total_salvos |-> saved[r], total_atualizados |-> updated[r]]]
  /\ obs' = [obs EXCEPT ![r].final = d1_bipagens]
  /\ UNCHANGED <<varsEnvio, varsStatus, pool, modo, relogio, d1_chunks, d1_bipagens, indice_unico, arquivo, linhas_lidas, deduplicados, finais, hoje, chunk_idx, fb_i, existing, saved, updated>>

\* a day passes between requests
Tick ==
  /\ relogio < MaxRelogio
  /\ EmCurso = {}
  /\ relogio' = relogio + 4
  /\ UNCHANGED <<varsEnvio, varsStatus, pool, modo, d1_chunks, d1_bipagens, indice_unico, pc, arquivo, linhas_lidas, deduplicados, finais, hoje, chunk_idx, fb_i, existing, saved, updated, resposta, obs>>

\* a request arrives carrying one of the uploads
Requisicao(r) ==
  /\ pc[r] = "idle"
  /\ r <= modo.runs
  /\ pool = "pipeline" => envio.pc = "done"
  /\ \E f \in Uploads(pool) : UploadBipagens(r, f)

\* the ingestion without the passing of time between requests
NextIngest ==
  \/ \E r \in Runs : Requisicao(r)
  \/ \E r \in Runs : BuscarDadosCompletos(r)
  \/ \E r \in Runs : CalcularTempoParado(r)
  \/ \E r \in Runs : CriarIndice(r)
  \/ \E r \in Runs : BulkWriteOk(r)
  \/ \E r \in Runs : BulkWriteRaise(r)
  \/ \E r \in Runs : FallbackFindOne(r)
  \/ \E r \in Runs : FallbackWrite(r)
  \/ \E r \in Runs : Retornar(r)

Next ==
  \/ \E r \in Runs : Requisicao(r)
  \/ \E r \in Runs : BuscarDadosCompletos(r)
  \/ \E r \in Runs : CalcularTempoParado(r)
  \/ \E r \in Runs : CriarIndice(r)
  \/ \E r \in Runs : BulkWriteOk(r)
  \/ \E r \in Runs : BulkWriteRaise(r)
  \/ \E r \in Runs : FallbackFindOne(r)
  \/ \E r \in Runs : FallbackWrite(r)
  \/ \E r \in Runs : Retornar(r)
  \/ Tick

(***************************************************************************)
(* Chunked upload of the reference table: upload_d1_excel and              *)
(* _save_chunks_optimized (server/app/modules/d1/routes/upload.py),        *)
(* D1Processor (services/d1_processor.py) and the d1_main / d1_chunks      *)
(* helpers of server/app/services/database.py                              *)
(***************************************************************************)
\* rows per chunk document (CHUNK_SIZE, scaled down)
CHUNK_SIZE == 2
\* chunk documents per insert_many (BULK_INSERT_SIZE, scaled down)
BULK_INSERT_SIZE == 2
\* the longest sheet uploaded
MaxItens == 7

\* _process_cell_value: empty and blank cells become None, text is stripped, long integers become text
process_cell_value(value) ==
  CASE value.t = "none" -> PyNone
    [] value.t = "int" -> IF value.v > 999999999 \/ 0 - value.v > 999999999 THEN PyStr(str(value)) ELSE value
    [] value.t = "bool" -> value
    [] OTHER -> IF strip(str(value)) = <<>> THEN PyNone ELSE PyStr(strip(str(value)))

\* the row_dict of one sheet row, and whether the row has at least one value
RowDictD1(headers, row) == [h \in DOMAIN RowDict(headers, row) |-> process_cell_value(RowDict(headers, row)[h])]
NonNullCount(row_dict) == Cardinality({h \in DOMAIN row_dict : row_dict[h] # PyNone})

\* _process_excel_sync: the rows after the header row that hold at least one value, in sheet order
RECURSIVE process_excel_sync(_, _, _)
process_excel_sync(f, k, data) ==
  IF k > Len(f.rows) THEN data
  ELSE LET row_dict == RowDictD1(f.headers, f.rows[k])
       IN process_excel_sync(f, k + 1, IF NonNullCount(row_dict) > 0 THEN Append(data, row_dict) ELSE data)

\* mutant: the division rounds down
TotalChunks_SemArredondar(total_items) == total_items \div CHUNK_SIZE

\* total_chunks of upload_d1_excel
TotalChunks(total_items) == (total_items + CHUNK_SIZE - 1) \div CHUNK_SIZE

\* mutant: each slice takes one row more than the step
create_chunks_Sobrepostos(data, i, chunks) ==
  LET Fatia(j) == SubSeq(data, j + 1, IF j + CHUNK_SIZE + 1 < Len(data) THEN j + CHUNK_SIZE + 1 ELSE Len(data))
      n == (Len(data) - i + CHUNK_SIZE - 1) \div CHUNK_SIZE
  IN chunks \o [c \in 1..n |-> Fatia(i + (c - 1) * CHUNK_SIZE)]

\* create_chunks: for i in range(0, len(data), chunk_size): chunks.append(data[i:i + chunk_size])
RECURSIVE create_chunks(_, _, _)
create_chunks(data, i, chunks) ==
  IF i >= Len(data) THEN chunks
  ELSE create_chunks(data, i + CHUNK_SIZE,
                     Append(chunks, SubSeq(data, i + 1, IF i + CHUNK_SIZE < Len(data) THEN i + CHUNK_SIZE ELSE Len(data))))

\* main_document; its _id is its position in d1_main
MainDocument(filename, total_items, columns_found) ==
  [filename |-> filename, total_items |-> total_items, chunk_size |-> CHUNK_SIZE, total_chunks |-> TotalChunks(total_items),
   columns_found |-> columns_found, status |-> "processing", processing_time |-> PyNone, error_message |-> PyNone]

\* mutant: the chunk document does not carry the id of its batch
ChunkDocument_SemMain(main_id, i, chunk_data) ==
  [main_document_id |-> 0, chunk_number |-> i, chunk_data |-> chunk_data, chunk_size |-> Len(chunk_data)]

\* chunk_document of _save_chunks_optimized
ChunkDocument(main_id, i, chunk_data) ==
  [main_document_id |-> main_id, chunk_number |-> i, chunk_data |-> chunk_data, chunk_size |-> Len(chunk_data)]

\* mutant: the status update has no filter on _id and rewrites every batch
update_d1_status_SemFiltro(col, document_id, status, error_message, processing_time) ==
  [n \in 1..Len(col) |->
     LET d1 == [col[n] EXCEPT !.status = status]
         d2 == IF Truthy(error_message) THEN [d1 EXCEPT !.error_message = error_message] ELSE d1
     IN IF processing_time # PyNone THEN [d2 EXCEPT !.processing_time = processing_time] ELSE d2]

\* update_d1_status: $set of status, of a non-empty error_message and of a processing_time that is not None
update_d1_status(col, document_id, status, error_message, processing_time) ==
  [n \in 1..Len(col) |->
     IF n # document_id THEN col[n]
     ELSE LET d1 == [col[n] EXCEPT !.status = status]
              d2 == IF Truthy(error_message) THEN [d1 EXCEPT !.error_message = error_message] ELSE d1
          IN IF processing_time # PyNone THEN [d2 EXCEPT !.processing_time = processing_time] ELSE d2]

\* error_msg of the top-level handler
ErrorMsg(e) == PyStr(<<"Erro ao processar arquivo: ", e>>)

\* insert_many and the fallback insert_one send the same dict, which the driver has given its _id:
\* a chunk document is in the store when a document of the same batch and number is
NoStore(col, doc) == \E n \in 1..Len(col) : col[n].main_document_id = doc.main_document_id /\ col[n].chunk_number = doc.chunk_number

\* the documents of a batch at the positions of `quais`, in order
RECURSIVE Escolhidos(_, _, _)
Escolhidos(docs, quais, k) ==
  IF k > Len(docs) THEN <<>>
  ELSE (IF k \in quais THEN <<docs[k]>> ELSE <<>>) \o Escolhidos(docs, quais, k + 1)

\* mutant: the loop stops preparing after the first batch of chunk documents
Preparar_SemRestantes(env) ==
  IF env.i = 0 /\ env.i < Len(env.chunks_data)
  THEN [env EXCEPT !.i = 1, !.chunk_documents = <<ChunkDocument(env.main_id, 1, env.chunks_data[1])>>, !.pc = "bulk"]
  ELSE [env EXCEPT !.pc = "update_completed", !.comparado = TRUE, !.aviso = (env.chunks_saved # Len(env.chunks_data))]

\* the loop of _save_chunks_optimized up to its next store call: chunk documents are prepared until
\* BULK_INSERT_SIZE of them wait, the rest goes in a last batch, and the count is compared at the end
RECURSIVE Preparar(_)
Preparar(env) ==
  IF env.i < Len(env.chunks_data)
  THEN LET docs == Append(env.chunk_documents, ChunkDocument(env.main_id, env.i + 1, env.chunks_data[env.i + 1]))
           e2 == [env EXCEPT !.i = env.i + 1, !.chunk_documents = docs]
       IN IF Len(docs) >= BULK_INSERT_SIZE THEN [e2 EXCEPT !.pc = "bulk"] ELSE Preparar(e2)
  ELSE IF Len(env.chunk_documents) > 0 THEN [env EXCEPT !.pc = "bulk"]
  ELSE [env EXCEPT !.pc = "update_completed", !.comparado = TRUE, !.aviso = (env.chunks_saved # Len(env.chunks_data))]

\* the uploads of the chunked path
REFERENCIA_XLSX == <<"d", "1", ".", "x", "l", "s", "x">>
REFERENCIA_CSV == <<"d", "1", ".", "c", "s", "v">>
HEADERS_D1 == <<COL_PEDIDO, COL_RESPONSAVEL>>
LinhaD1(k) == <<PyInt(k), PyStr(ANA)>>
LINHA_VAZIA == <<PyNone, PyStr(<<" ">>)>>
LINHA_INTEIRO_LONGO == <<PyInt(1234567890), PyNone>>
ArquivoD1(filename, legivel, rows) == [filename |-> filename, legivel |-> legivel, headers |-> HEADERS_D1, rows |-> rows]
ENVIOS ==
  {ArquivoD1(REFERENCIA_XLSX, TRUE, [k \in 1..n |-> LinhaD1(k)]) : n \in 0..MaxItens}
  \cup {ArquivoD1(REFERENCIA_XLSX, TRUE, <<LinhaD1(1), LINHA_VAZIA, LINHA_INTEIRO_LONGO, LINHA_VAZIA, LinhaD1(2)>>),
        ArquivoD1(REFERENCIA_XLSX, TRUE, <<LINHA_VAZIA>>),
        ArquivoD1(REFERENCIA_CSV, TRUE, <<LinhaD1(1)>>),
        ArquivoD1(REFERENCIA_XLSX, FALSE, <<LinhaD1(1)>>)}
\* a batch of an earlier upload
LOTE_ANTIGO == [MainDocument(REFERENCIA_XLSX, 1, HEADERS_D1) EXCEPT !.status = "completed", !.processing_time = PyInt(1)]

Envio0 ==
  [pc |-> "idle", dados |-> <<>>, columns_found |-> <<>>, filename |-> <<>>, total_items |-> 0, total_chunks |-> 0, main_id |-> 0,
   chunks_data |-> <<>>, i |-> 0, chunk_documents |-> <<>>, chunks_saved |-> 0, fb |-> 0, comparado |-> FALSE, aviso |-> FALSE,
   error_msg |-> PyNone, resposta |-> SemResposta]
EnvioObs0 == [tentados |-> <<>>, antes_do_main |-> 0, falhas |-> 0, excecao |-> FALSE, individuais |-> <<>>, bulk_falhou |-> {}]

\* POST /upload up to the first store call: extension, process_file, the empty result, total_chunks
UploadD1Excel(f) ==
  /\ envio.pc = "idle"
  /\ IF ~FormatoSuportado(f.filename)
     THEN envio' = [envio EXCEPT !.pc = "done", !.resposta = [status |-> 400, detail |-> "Arquivo deve ser Excel (.xlsx ou .xls)"]]
     ELSE IF ~f.legivel
     THEN envio' = [envio EXCEPT !.pc = "done", !.error_msg = ErrorMsg("arquivo ilegivel"),
                                 !.resposta = [status |-> 500, detail |-> ErrorMsg("arquivo ilegivel")]]
     ELSE IF Len(process_excel_sync(f, 1, <<>>)) = 0
     THEN envio' = [envio EXCEPT !.pc = "done", !.resposta = [status |-> 400, detail |-> "Nenhum dado foi processado do arquivo"]]
     ELSE envio' = [envio EXCEPT !.pc = "insert_main", !.filename = f.filename, !.dados = process_excel_sync(f, 1, <<>>),
                                 !.columns_found = f.headers, !.total_items = Len(process_excel_sync(f, 1, <<>>)),
                                 !.total_chunks = TotalChunks(Len(process_excel_sync(f, 1, <<>>)))]
  /\ envio_obs' = [envio_obs EXCEPT !.excecao = FormatoSuportado(f.filename) /\ ~f.legivel]
  /\ UNCHANGED <<varsIngestao, varsStatus, d1_main, d1_chunks>>

\* insert_d1_main returned: the batch exists with status processing, and the chunks are divided
InsertD1MainOk ==
  /\ envio.pc = "insert_main"
  /\ d1_main' = Append(d1_main, MainDocument(envio.filename, envio.total_items, envio.columns_found))
  /\ envio' = Preparar([envio EXCEPT !.main_id = Len(d1_main) + 1, !.chunks_data = create_chunks(envio.dados, 0, <<>>)])
  /\ UNCHANGED <<varsIngestao, varsStatus, d1_chunks, envio_obs>>

\* insert_d1_main raised: main_id is not among the locals of the handler
InsertD1MainRaise ==
  /\ envio.pc = "insert_main"
  /\ envio' = [envio EXCEPT !.pc = "done", !.error_msg = ErrorMsg("falha em insert_one"),
                            !.resposta = [status |-> 500, detail |-> ErrorMsg("falha em insert_one")]]
  /\ envio_obs' = [envio_obs EXCEPT !.excecao = TRUE]
  /\ UNCHANGED <<varsIngestao, varsStatus, d1_main, d1_chunks>>

\* what every chunk write notes: the documents first sent, and those sent while their batch did not exist
Tentar(docs) ==
  [envio_obs EXCEPT !.tentados = envio_obs.tentados \o docs,
                    !.antes_do_main = envio_obs.antes_do_main +
                       Cardinality({k \in 1..Len(docs) : docs[k].main_document_id \notin 1..Len(d1_main)})]

\* insert_d1_chunks_bulk returned len(inserted_ids)
InsertChunksBulkOk ==
  /\ envio.pc = "bulk"
  /\ d1_chunks' = d1_chunks \o envio.chunk_documents
  /\ envio' = Preparar([envio EXCEPT !.chunks_saved = envio.chunks_saved + Len(envio.chunk_documents), !.chunk_documents = <<>>])
  /\ envio_obs' = Tentar(envio.chunk_documents)
  /\ UNCHANGED <<varsIngestao, varsStatus, d1_main>>

\* insert_many(ordered=False) raised: any part of the batch may have been written, and the fallback starts
InsertChunksBulkRaise ==
  /\ envio.pc = "bulk"
  /\ \E quais \in SUBSET (1..Len(envio.chunk_documents)) :
       d1_chunks' = d1_chunks \o Escolhidos(envio.chunk_documents, quais, 1)
  /\ envio' = [envio EXCEPT !.pc = "fallback", !.fb = 1]
  /\ envio_obs' = [Tentar(envio.chunk_documents) EXCEPT !.bulk_falhou = @ \cup {envio.chunk_documents[k].chunk_number : k \in 1..Len(envio.chunk_documents)}]
  /\ UNCHANGED <<varsIngestao, varsStatus, d1_main>>

\* the end of one pass of `for doc in chunk_documents`
FimChunk(sv) ==
  IF envio.fb < Len(envio.chunk_documents)
  THEN [envio EXCEPT !.fb = envio.fb + 1, !.chunks_saved = envio.chunks_saved + sv]
  ELSE Preparar([envio EXCEPT !.fb = 0, !.chunks_saved = envio.chunks_saved + sv, !.chunk_documents = <<>>])

\* insert_d1_chunk returned: the document was not in the store yet
InsertChunkOk ==
  /\ envio.pc = "fallback"
  /\ ~NoStore(d1_chunks, envio.chunk_documents[envio.fb])
  /\ d1_chunks' = Append(d1_chunks, envio.chunk_documents[envio.fb])
  /\ envio' = FimChunk(1)
  /\ envio_obs' = [envio_obs EXCEPT !.individuais = Append(@, envio.chunk_documents[envio.fb].chunk_number)]
  /\ UNCHANGED <<varsIngestao, varsStatus, d1_main>>

\* insert_d1_chunk raised (a duplicate _id when the batch write had stored the document, or a store failure): logged
InsertChunkRaise ==
  /\ envio.pc = "fallback"
  /\ envio' = FimChunk(0)
  /\ envio_obs' = [envio_obs EXCEPT !.falhas = envio_obs.falhas + 1, !.individuais = Append(@, envio.chunk_documents[envio.fb].chunk_number)]
  /\ UNCHANGED <<varsIngestao, varsStatus, d1_main, d1_chunks>>

\* update_d1_status(main_id, "completed") returned, and the handler answers
UpdateCompletedOk ==
  /\ envio.pc = "update_completed"
  /\ d1_main' = update_d1_status(d1_main, envio.main_id, "completed", PyNone, PyInt(1))
  /\ envio' = [envio EXCEPT !.pc = "done", !.resposta = [status |-> 200, success |-> TRUE, id |-> envio.main_id,
                                                        total_items |-> envio.total_items, total_chunks |-> envio.chunks_saved]]
  /\ UNCHANGED <<varsIngestao, varsStatus, d1_chunks, envio_obs>>

\* update_d1_status(main_id, "completed") raised: the top-level handler takes over
UpdateCompletedRaise ==
  /\ envio.pc = "update_completed"
  /\ envio' = [envio EXCEPT !.pc = "update_error", !.error_msg = ErrorMsg("falha em update_one")]
  /\ envio_obs' = [envio_obs EXCEPT !.excecao = TRUE]
  /\ UNCHANGED <<varsIngestao, varsStatus, d1_main, d1_chunks>>

\* update_d1_status(main_id, "error", error_message=error_msg) returned, and the error goes to the caller
UpdateErrorOk ==
  /\ envio.pc = "update_error"
  /\ d1_main' = update_d1_status(d1_main, envio.main_id, "error", envio.error_msg, PyInt(1))
  /\ envio' = [envio EXCEPT !.pc = "done", !.resposta = [status |-> 500, detail |-> envio.error_msg]]
  /\ UNCHANGED <<varsIngestao, varsStatus, d1_chunks, envio_obs>>

\* update_d1_status(main_id, "error") raised too: `except: pass`, and the error goes to the caller
UpdateErrorRaise ==
  /\ envio.pc = "update_error"
  /\ envio' = [envio EXCEPT !.pc = "done", !.resposta = [status |-> 500, detail |-> envio.error_msg]]
  /\ UNCHANGED <<varsIngestao, varsStatus, d1_main, d1_chunks, envio_obs>>

NextUpload ==
  \/ \E f \in ENVIOS : UploadD1Excel(f)
  \/ InsertD1MainOk
  \/ InsertD1MainRaise
  \/ InsertChunksBulkOk
  \/ InsertChunksBulkRaise
  \/ InsertChunkOk
  \/ InsertChunkRaise
  \/ UpdateCompletedOk
  \/ UpdateCompletedRaise
  \/ UpdateErrorOk
  \/ UpdateErrorRaise

EnvioParado ==
  /\ d1_main = <<>>
  /\ envio = Envio0
  /\ envio_obs = EnvioObs0

(***************************************************************************)
(* Driver-status override tables: salvar_status_motorista and              *)
(* obter_status_motorista (server/app/modules/d1/routes/bipagens.py, table *)
(* motoristas_status_d1) and salvar_status_motorista_sla and               *)
(* obter_status_motorista_sla (server/app/modules/sla/routes/              *)
(* motorista_status.py, table motorista_status_sla, whose key field is     *)
(* called motorista)                                                       *)
(***************************************************************************)
\* a field a document does not have
Ausente == [t |-> "ausente", v |-> <<>>]

S_OK == <<"O", "K">>
S_RETORNOU == <<"R", "e", "t", "o", "r", "n", "o", "u">>
S_QUALQUER == <<"F", "E", "I", "T", "O">>
OBS_LIGAR == <<"l", "i", "g", "a", "r">>
ROTAS == {"d1", "sla"}
STATUS_VALIDOS(rota) == IF rota = "d1" THEN {S_OK} ELSE {S_RETORNOU}

\* mutant: a request without base matches every record of the driver
Consulta_Curinga(doc, motorista_value, base) ==
  /\ doc.responsavel = motorista_value
  /\ Truthy(base) => doc.base = base

\* the query of both routes: the exact base, or a base that is missing, null or empty
Consulta(doc, motorista_value, base) ==
  /\ doc.responsavel = motorista_value
  /\ IF Truthy(base) THEN doc.base = base ELSE doc.base \in {Ausente, PyNone, Vazio}

\* find_one: the first document the query matches, or None
find_one(col, motorista_value, base) ==
  IF \E n \in 1..Len(col) : Consulta(col[n], motorista_value, base)
  THEN col[CHOOSE n \in 1..Len(col) : Consulta(col[n], motorista_value, base) /\ \A m \in 1..(n - 1) : ~Consulta(col[m], motorista_value, base)]
  ELSE PyNone

\* delete_one({"_id": ...})
delete_one(col, id) == SelectSeq(col, LAMBDA d : d.id # id)

\* the _id of an inserted document: one that no document of the table has
NovoId(col) == CHOOSE i \in 1..(Len(col) + 1) : (\A n \in 1..Len(col) : col[n].id # i) /\ \A j \in 1..(i - 1) : \E n \in 1..Len(col) : col[n].id = j

\* a request body: status_data
StatusData(motorista, base, status, observacao) == [motorista |-> motorista, base |-> base, status |-> status, observacao |-> observacao]

\* observacao of the stored document: status_data.get("observacao", "") in D1, status_data.observacao or "" in SLA
Observacao(rota, status_data) ==
  IF rota = "d1" THEN (IF status_data.observacao = Ausente THEN Vazio ELSE status_data.observacao)
  ELSE PyOr(IF status_data.observacao = Ausente THEN PyNone ELSE status_data.observacao, Vazio)

\* the table and the reply after POST .../motorista/{motorista}/status
salvar_status_motorista(rota, col, motorista, status_data, agora) ==
  LET status_value == IF status_data.status = Ausente THEN PyNone ELSE status_data.status
      motorista_value == PyOr(IF status_data.motorista = Ausente THEN PyNone ELSE status_data.motorista, motorista)
      base == PyOr(IF status_data.base = Ausente THEN PyNone ELSE status_data.base, Vazio)
      achado == find_one(col, motorista_value, base)
      doc == [responsavel |-> motorista_value, base |-> base, status |-> status_value,
              observacao |-> Observacao(rota, status_data), updated_at |-> agora]
  IN IF status_value = PyNone
     THEN [col |-> IF achado # PyNone THEN delete_one(col, achado.id) ELSE col,
           reply |-> [code |-> 200, status |-> PyNone, motorista |-> motorista_value]]
     ELSE IF status_value.t # "str" \/ status_value.v \notin STATUS_VALIDOS(rota)
     THEN [col |-> col, reply |-> [code |-> 400, status |-> status_value, motorista |-> motorista_value]]
     ELSE IF achado # PyNone
     THEN [col |-> [n \in 1..Len(col) |-> IF col[n].id = achado.id THEN doc @@ col[n] ELSE col[n]],
           reply |-> [code |-> 200, status |-> status_value, motorista |-> motorista_value]]
     ELSE [col |-> Append(col, doc @@ [created_at |-> agora, id |-> NovoId(col)]),
           reply |-> [code |-> 200, status |-> status_value, motorista |-> motorista_value]]

\* the reply of GET .../motorista/{motorista}/status?base=
obter_status_motorista(col, motorista, base) ==
  LET doc == find_one(col, motorista, IF base = Ausente THEN PyNone ELSE base)
  IN IF doc # PyNone THEN [code |-> 200, status |-> doc.status, motorista |-> doc.responsavel]
     ELSE [code |-> 200, status |-> PyNone, motorista |-> motorista]

\* the requests of the model, and how many of them arrive
MaxPedidos == 2
MOTORISTAS == {PyStr(ANA), PyStr(BIA)}
BASES_PEDIDAS == {Ausente, Vazio, PyStr(SP1)}
PEDIDOS_STATUS(rota) ==
  {StatusData(m, b, st, o) : m \in {Ausente, PyStr(BIA)}, b \in BASES_PEDIDAS,
                             st \in {PyNone, PyStr(S_QUALQUER)} \cup {PyStr(x) : x \in STATUS_VALIDOS(rota)},
                             o \in {Ausente, PyStr(OBS_LIGAR)}}
\* a record of the table as an earlier request or an earlier version left it
Registro(id, motorista, base, status) ==
  [id |-> id, responsavel |-> motorista, base |-> base, status |-> PyStr(status), observacao |-> Vazio,
   updated_at |-> Now(0), created_at |-> Now(0)]
\* tables with at most one record per driver and base, and at most one record without base per driver
TABELAS(rota) ==
  LET st == CHOOSE x \in STATUS_VALIDOS(rota) : TRUE
  IN {<<>>,
      <<Registro(1, PyStr(ANA), Ausente, st)>>,
      <<Registro(1, PyStr(ANA), PyNone, st), Registro(2, PyStr(ANA), PyStr(SP1), st)>>,
      <<Registro(1, PyStr(ANA), PyStr(SP1), st), Registro(2, PyStr(BIA), Vazio, st), Registro(3, PyStr(BIA), PyStr(SP1), st)>>}

StatusObs0 == [rota |-> "d1", n |-> 0, op |-> "nenhuma", motorista |-> PyNone, pedido |-> StatusData(Ausente, Ausente, Ausente, Ausente),
               antes |-> <<>>, reply |-> [code |-> 0, status |-> PyNone, motorista |-> PyNone]]

\* POST .../motorista/{motorista}/status
SalvarStatusMotorista(motorista, status_data) ==
  LET r == salvar_status_motorista(status_obs.rota, motoristas_status, motorista, status_data, Now(relogio))
  IN /\ status_obs.n < MaxPedidos
     /\ motoristas_status' = r.col
     /\ UNCHANGED <<varsIngestao, d1_chunks, varsEnvio>>
     /\ status_obs' = [status_obs EXCEPT !.n = status_obs.n + 1, !.op = "salvar", !.motorista = motorista, !.pedido = status_data,
                                         !.antes = motoristas_status, !.reply = r.reply]

\* GET .../motorista/{motorista}/status
ObterStatusMotorista(motorista, base) ==
  /\ status_obs.n < MaxPedidos
  /\ status_obs' = [status_obs EXCEPT !.n = status_obs.n + 1, !.op = "obter", !.motorista = motorista,
                                      !.pedido = StatusData(Ausente, base, Ausente, Ausente),
                                      !.antes = motoristas_status, !.reply = obter_status_motorista(motoristas_status, motorista, base)]
  /\ UNCHANGED <<varsIngestao, d1_chunks, varsEnvio, motoristas_status>>

NextStatus ==
  \/ \E sd \in PEDIDOS_STATUS(status_obs.rota) : SalvarStatusMotorista(PyStr(ANA), sd)
  \/ \E m \in MOTORISTAS : \E b \in BASES_PEDIDAS : ObterStatusMotorista(m, b)

StatusParado ==
  /\ motoristas_status = <<>>
  /\ status_obs = StatusObs0

\* the ingestion before any request
IngestaoParada ==
  /\ relogio = 0
  /\ d1_bipagens = <<>>
  /\ indice_unico = FALSE
  /\ pc = [r \in Runs |-> "idle"]
  /\ arquivo = [r \in Runs |-> ARQ_VAZIO]
  /\ linhas_lidas = [r \in Runs |-> 0]
  /\ deduplicados = [r \in Runs |-> <<>>]
  /\ finais = [r \in Runs |-> <<>>]
  /\ hoje = [r \in Runs |-> PyNone]
  /\ chunk_idx = [r \in Runs |-> 0]
  /\ fb_i = [r \in Runs |-> 0]
  /\ existing = [r \in Runs |-> FALSE]
  /\ saved = [r \in Runs |-> 0]
  /\ updated = [r \in Runs |-> 0]
  /\ resposta = [r \in Runs |-> SemResposta]
  /\ obs = [r \in Runs |-> Obs0]

InitComum ==
  /\ IngestaoParada
  /\ EnvioParado
  /\ StatusParado

\* overlapping requests over uploads that share shipment keys
Init ==
  /\ InitComum
  /\ pool = "concorrente"
  /\ modo = [runs |-> MaxRuns, sequencial |-> FALSE]
  /\ d1_chunks = CHUNKS_BASE

Spec == Init /\ [][Next]_vars

\* one request after the other, over valid and invalid uploads
InitSeq ==
  /\ InitComum
  /\ pool = "sequencial"
  /\ modo = [runs |-> MaxRuns, sequencial |-> TRUE]
  /\ d1_chunks = CHUNKS_BASE

SpecSeq == InitSeq /\ [][Next]_vars

\* the resolver alone: one request over every sheet of up to MaxLinhas rows
NextResolver == \E r \in Runs : Requisicao(r)
InitResolver ==
  /\ InitComum
  /\ pool = "resolver"
  /\ modo = [runs |-> 1, sequencial |-> TRUE]
  /\ d1_chunks = CHUNKS_BASE

SpecResolver == InitResolver /\ [][NextResolver]_vars

\* the resolver and the joiner: one request over every sheet of up to MaxLinhas rows, up to the merged rows
NextBusca ==
  \/ \E r \in Runs : Requisicao(r)
  \/ \E r \in Runs : BuscarDadosCompletos(r)
SpecBusca == InitResolver /\ [][NextBusca]_vars

\* one request over identifiers with and without the shape of a child, every one of them in the reference table
CHUNKS_FILHOS == <<
  ChunkDoc(1, <<Referencia(PyStr(K123), PyStr(Joao), PyStr(SP1)), Referencia(PyStr(K123_001), PyStr(Joao), PyStr(SP1)),
                Referencia(PyStr(K123p2), PyStr(Joao), PyStr(SP1)), Referencia(PyStr(K123u9), PyStr(Joao), PyStr(SP1)),
                Referencia(PyStr(K123A), PyStr(Joao), PyStr(SP1))>>),
  ChunkDoc(2, <<Referencia(PyInt(123456789), PyStr(MARIA), PyStr(SP1)), Referencia(PyStr(K123_), PyStr(MARIA), PyStr(SP1)),
                Referencia(PyStr(K12a_acento), PyStr(MARIA), PyStr(SP1))>>) >>
InitFilhos ==
  /\ InitComum
  /\ pool = "filhos"
  /\ modo = [runs |-> 1, sequencial |-> TRUE]
  /\ d1_chunks = CHUNKS_FILHOS

SpecFilhos == InitFilhos /\ [][NextIngest]_vars

\* one request of one row against one reference row, over the cells the driver decision reads
CHUNKS_JOIN == {<<ChunkDoc(1, <<Referencia(PyStr(K123), resp, base)>>)>> : resp \in {PyNone, PyStr(Joao), PyStr(ANA)}, base \in {PyNone, PyStr(SP1)}}
InitJoin ==
  /\ InitComum
  /\ pool = "join"
  /\ modo = [runs |-> 1, sequencial |-> TRUE]
  /\ d1_chunks \in CHUNKS_JOIN

SpecJoin == InitJoin /\ [][NextIngest]_vars

\* the aging calculator alone: one row with any scan-time cell, at any time of the clock
CELULAS_TEMPO ==
  {PyNone, Vazio, PyStr(<<" ">>), PyStr(T_ISO), PyStr(ANA), PyInt(0), PyInt(45293), PyBool(TRUE),
   PyStr(T_0101_10), PyStr(T_0102_09), PyStr(T_0102), PyStr(T_BR_0103_08), PyStr(T_BR_0101),
   PyDatetime(ymd2ord(2023, 12, 31), 86399), PyDatetime(ymd2ord(2024, 1, 2), 32401)}
LinhaComTempo(celula) == (COL_PEDIDO :> PyStr(K123)) @@ (COL_TEMPO :> celula)
LinhaSemTempo == (COL_PEDIDO :> PyStr(K123)) @@ (COL_CORREIO :> PyStr(ANA))
NextAging == \E r \in Runs : CalcularTempoParado(r)
InitAging ==
  /\ relogio \in 0..MaxRelogio
  /\ d1_bipagens = <<>>
  /\ indice_unico = FALSE
  /\ pc = [r \in Runs |-> IF r = 1 THEN "calcular" ELSE "idle"]
  /\ arquivo = [r \in Runs |-> ARQ_VAZIO]
  /\ linhas_lidas = [r \in Runs |-> 0]
  /\ deduplicados = [r \in Runs |-> <<>>]
  /\ \E linha \in {LinhaComTempo(c) : c \in CELULAS_TEMPO} \cup {LinhaSemTempo} :
       finais = [r \in Runs |-> IF r = 1 THEN <<linha>> ELSE <<>>]
  /\ hoje = [r \in Runs |-> PyNone]
  /\ chunk_idx = [r \in Runs |-> 0]
  /\ fb_i = [r \in Runs |-> 0]
  /\ existing = [r \in Runs |-> FALSE]
  /\ saved = [r \in Runs |-> 0]
  /\ updated = [r \in Runs |-> 0]
  /\ resposta = [r \in Runs |-> SemResposta]
  /\ obs = [r \in Runs |-> Obs0]
  /\ pool = "sequencial"
  /\ modo = [runs |-> 1, sequencial |-> TRUE]
  /\ d1_chunks = CHUNKS_BASE
  /\ EnvioParado
  /\ StatusParado

SpecAging == InitAging /\ [][NextAging]_vars

\* one chunked upload, over sheets of up to MaxItens rows and every outcome of the store calls,
\* into an empty ledger or after an earlier batch
InitUpload ==
  /\ IngestaoParada
  /\ StatusParado
  /\ pool = "sequencial"
  /\ modo = [runs |-> 0, sequencial |-> TRUE]
  /\ d1_chunks = <<>>
  /\ d1_main \in {<<>>, <<LOTE_ANTIGO>>}
  /\ envio = Envio0
  /\ envio_obs = EnvioObs0

SpecUpload == InitUpload /\ [][NextUpload]_vars

\* the whole pipeline: a reference sheet goes through the chunked upload, and when that request has been
\* answered a scan sheet is ingested against what the upload left in the reference store
ENVIOS_PIPELINE == {ArquivoD1(REFERENCIA_XLSX, TRUE, [k \in 1..5 |-> LinhaD1(k)]), ArquivoD1(REFERENCIA_CSV, TRUE, <<LinhaD1(1)>>)}
NextPipeline ==
  \/ \E f \in ENVIOS_PIPELINE : UploadD1Excel(f)
  \/ InsertD1MainOk
  \/ InsertD1MainRaise
  \/ InsertChunksBulkOk
  \/ InsertChunksBulkRaise
  \/ InsertChunkOk
  \/ InsertChunkRaise
  \/ UpdateCompletedOk
  \/ UpdateCompletedRaise
  \/ UpdateErrorOk
  \/ UpdateErrorRaise
  \/ \E r \in Runs : Requisicao(r)
  \/ \E r \in Runs : BuscarDadosCompletos(r)
  \/ \E r \in Runs : CalcularTempoParado(r)
  \/ \E r \in Runs : CriarIndice(r)
  \/ \E r \in Runs : BulkWriteOk(r)
  \/ \E r \in Runs : BulkWriteRaise(r)
  \/ \E r \in Runs : FallbackFindOne(r)
  \/ \E r \in Runs : FallbackWrite(r)
  \/ \E r \in Runs : Retornar(r)
InitPipeline ==
  /\ IngestaoParada
  /\ StatusParado
  /\ EnvioParado
  /\ pool = "pipeline"
  /\ modo = [runs |-> 1, sequencial |-> TRUE]
  /\ d1_chunks = <<>>

SpecPipeline == InitPipeline /\ [][NextPipeline]_vars

\* requests on a driver-status table of either route, one after the other
InitStatus ==
  /\ IngestaoParada
  /\ EnvioParado
  /\ pool = "sequencial"
  /\ modo = [runs |-> 0, sequencial |-> TRUE]
  /\ d1_chunks = <<>>
  /\ \E rota \in ROTAS :
       /\ motoristas_status \in TABELAS(rota)
       /\ status_obs = [StatusObs0 EXCEPT !.rota = rota]

SpecStatus == InitStatus /\ [][NextStatus]_vars

(***************************************************************************)
(* Properties                                                              *)
(***************************************************************************)
ChavesDe(dados) == {strip(str(Get(dados[n], COL_PEDIDO, Vazio))) : n \in 1..Len(dados)}
Quantos(col, k) == Cardinality({i \in 1..Len(col) : col[i].numero_pedido_jms = k})
\* a request that ended without any individual write failing
SemPerdas(r) == pc[r] = "done" /\ obs[r].perdidos = {}

\* C1: after any sequence of ingestion runs, through the bulk path or the fallback in any mix,
\* d1_bipagens holds at most one document per numero_pedido_jms: re-ingesting a key overwrites in place.
C1_UmRegistroPorPedido ==
  \A i, j \in 1..Len(d1_bipagens) : d1_bipagens[i].numero_pedido_jms = d1_bipagens[j].numero_pedido_jms => i = j

\* a key written by two runs, the second of them through the fallback, with no unique index to lean on
C1_Witness ==
  /\ pc[1] = "done" /\ pc[2] = "done"
  /\ ~indice_unico
  /\ K123 \in obs[1].gravados /\ K123 \in obs[2].gravados
  /\ \E n \in 1..Len(obs[2].lotes) : obs[2].lotes[n].via = "fallback" /\ obs[2].lotes[n].dup > 0
  /\ Quantos(d1_bipagens, K123) = 1

\* the second of two runs of the same upload, the first ended before the second began, no write lost
MesmoArquivoDuasVezes ==
  /\ pc[1] = "done" /\ pc[2] = "done"
  /\ arquivo[1] = arquivo[2]
  /\ 1 \in obs[2].antes
  /\ SemPerdas(1) /\ SemPerdas(2)

SemUpdatedAt(col) == [i \in 1..Len(col) |-> [col[i] EXCEPT !.updated_at = PyNone]]
SemUpdatedAtNemParado(col) == [i \in 1..Len(col) |-> [col[i] EXCEPT !.updated_at = PyNone, !.tempo_pedido_parado = PyNone]]

DocumentoDe(r, k) ==
  LET n == CHOOSE n \in 1..Len(finais[r]) : strip(str(Get(finais[r][n], COL_PEDIDO, Vazio))) = k
  IN Documento(finais[r][n], MotoristaBulk(finais[r][n]), hoje[r])
ChavesFinais(r) == ChavesDe(finais[r])
\* both requests ended and the store raised nothing in an individual write but DuplicateKeyError
AmbosTerminados ==
  /\ pc[1] = "done" /\ pc[2] = "done"
  /\ \A r \in {1, 2} : obs[r].perdidos \subseteq obs[r].recusados

\* C3 as stated: when two concurrent runs share keys, under every interleaving each shared key ends with
\* exactly one record, whose content is the one a run wrote, and no record of either run is silently lost.
C3_Original ==
  AmbosTerminados =>
    \A k \in ChavesFinais(1) \cap ChavesFinais(2) :
      /\ Quantos(d1_bipagens, k) = 1
      /\ \E r \in {1, 2} : \E q \in {1, 2} :
           d1_bipagens[Posicao(d1_bipagens, k)] = Armazenado(DocumentoDe(r, k), hoje[q])
      /\ \A r \in {1, 2} : k \in obs[r].gravados

\* the rows of an upload that carry a key and a time the resolver can read, as <<key, time>>
LinhasValidas(dados) ==
  {<<strip(str(Get(dados[i], COL_PEDIDO, Vazio))), ParseTempo(dados[i])>> : i \in {j \in 1..Len(dados) : ParseTempo(dados[j]) # PyNone}}
SemCorreio(dados) == [i \in 1..Len(dados) |-> Put(dados[i], COL_CORREIO, PyNone)]
ChaveETempo(dados) == [n \in 1..Len(dados) |-> <<strip(str(Get(dados[n], COL_PEDIDO, Vazio))), ParseTempo(dados[n])>>]

FormatoFilho(k) ==
  \/ \E n \in 1..(Len(k) - 1) :
       /\ k[Len(k) - n] \in {".", "-", "_"}
       /\ \A j \in (Len(k) - n + 1)..Len(k) : k[j] \in {"0", "1", "2", "3", "4", "5", "6", "7", "8", "9"}
  \/ /\ Len(k) > 0
     /\ k[Len(k)] \in {"a", "b", "c", "d", "e", "f", "g", "h", "i", "j", "k", "l", "m", "n", "o", "p", "q", "r", "s", "t", "u", "v", "w", "x", "y", "z",
                       "A", "B", "C", "D", "E", "F", "G", "H", "I", "J", "K", "L", "M", "N", "O", "P", "Q", "R", "S", "T", "U", "V", "W", "X", "Y", "Z"}
ChavesGravadas == {d1_bipagens[i].numero_pedido_jms : i \in 1..Len(d1_bipagens)}

\* C5: an identifier is excluded exactly when it has the shape of a child; no such identifier is in the
\* resolver's output, the joiner's output or d1_bipagens; 123 and 123456789 are kept.
C5_Filhos ==
  \A r \in Runs : pc[r] \notin {"idle", "rejected"} =>
    /\ \A l \in LinhasValidas(DadosBrutos(arquivo[r])) : (l[1] \in ChavesDe(deduplicados[r])) <=> ~FormatoFilho(l[1])
    /\ \A k \in ChavesDe(deduplicados[r]) \cup ChavesDe(finais[r]) \cup ChavesGravadas : ~FormatoFilho(k)
    /\ \A k \in {K123, K123456789} :
         (\E l \in LinhasValidas(DadosBrutos(arquivo[r])) : l[1] = k) =>
           /\ k \in ChavesDe(deduplicados[r])
           /\ pc[r] # "buscar" => k \in ChavesDe(finais[r])
           /\ SemPerdas(r) => k \in ChavesGravadas

\* an upload of 123_9 and 123456789 ended: the child was dropped by the resolver, the parent is stored
C5_Witness ==
  /\ pc[1] = "done"
  /\ arquivo[1].rows[1][1] = PyStr(K123u9)
  /\ Len(arquivo[1].rows) = 2 /\ arquivo[1].rows[2][1] = PyInt(123456789)
  /\ ChavesDe(deduplicados[1]) = {K123456789}
  /\ ChavesGravadas = {K123456789}

\* a cell that holds no text: an empty cell, or a text that is blank
CelulaVazia(c) == c = PyNone \/ (c.t = "str" /\ strip(c.v) = <<>>)
\* a cell that holds a text that is not blank
CelulaComTexto(c) == c.t = "str" /\ strip(c.v) # <<>>
\* two cells that hold the same text once trimmed and upper-cased
MesmoTexto(a, b) == CelulaComTexto(a) /\ CelulaComTexto(b) /\ upper(strip(a.v)) = upper(strip(b.v))

\* C6 as stated: a resolved row with an empty courier whose digitizer equals the reference row's responsible
\* is stored with esta_com_motorista true and that responsible as driver when the scan base equals the
\* reference base, and with esta_com_motorista false and an empty driver when the bases differ
\* (both bases being texts, compared trimmed and without case).
C6_Original ==
  \A r \in Runs : (SemPerdas(r) /\ pool = "join") =>
    LET linha == DadosBrutos(arquivo[r])[1]
        ref == d1_chunks[1].chunk_data[1]
        doc == d1_bipagens[Posicao(d1_bipagens, K123)]
    IN (/\ CelulaVazia(Get(linha, COL_CORREIO, PyNone))
        /\ MesmoTexto(Get(linha, COL_DIGITALIZADOR, PyNone), Get(ref, COL_RESPONSAVEL, PyNone))
        /\ CelulaComTexto(Get(linha, COL_BASE_ESCANEAMENTO, PyNone)) /\ CelulaComTexto(Get(ref, COL_BASE_ENTREGA, PyNone))) =>
         IF MesmoTexto(Get(linha, COL_BASE_ESCANEAMENTO, PyNone), Get(ref, COL_BASE_ENTREGA, PyNone))
         THEN doc.esta_com_motorista = PyBool(TRUE) /\ doc.responsavel_entrega = PyStr(strip(Get(ref, COL_RESPONSAVEL, PyNone).v))
         ELSE doc.esta_com_motorista = PyBool(FALSE) /\ doc.responsavel_entrega = Vazio

\* the keys of the reference table
ChavesReferencia ==
  UNION {{strip(str(Get(d1_chunks[i].chunk_data[j], COL_PEDIDO, Vazio))) : j \in 1..Len(d1_chunks[i].chunk_data)} : i \in 1..Len(d1_chunks)} \ {<<>>}
\* the resolved keys of a request that the reference table does not hold
NaoEncontradas(r) == {k \in ChavesDe(deduplicados[r]) : k \notin ChavesReferencia}
\* the unmatched metric of a result; a result without the field counts nothing
MetricaNaoEncontrados(resp) == IF "total_nao_encontrados" \in DOMAIN resp THEN resp["total_nao_encontrados"] ELSE 0

FalhasNoResumo(resp) == IF "total_falhas" \in DOMAIN resp THEN resp["total_falhas"] ELSE 0

\* C8 as stated: when the bulk write of a batch of n records fails, exactly n individual upsert attempts
\* follow, and the summary satisfies upserted + updated + failed = n for that batch.
C8_Original ==
  \A r \in Runs : pc[r] = "done" =>
    \A i \in 1..Len(obs[r].lotes) :
      obs[r].lotes[i].via = "fallback" =>
        /\ obs[r].lotes[i].tent = obs[r].lotes[i].n
        /\ Len(obs[r].lotes) = 1 =>
             resposta[r].total_salvos + resposta[r].total_atualizados + FalhasNoResumo(resposta[r]) = obs[r].lotes[i].n

\* the readable scan time of a cell, or PyNone
TempoLegivel(celula) ==
  IF celula.t = "datetime" THEN celula ELSE IF celula.t = "str" THEN TryFormats(celula.v, 1) ELSE PyNone
Segundos(a, b) == (a.v[1] - b.v[1]) * 86400 + (a.v[2] - b.v[2])
JaCalculado(r) == pc[r] \in {"indice", "bulk", "fb_find", "fb_write", "retornar", "done"}

\* C9: the bucket is "Exceed N days with no track" with N the whole days elapsed from the scan time to the
\* clock read by the calculation (N * 1 day <= elapsed < (N + 1) * 1 day, so 0 for a scan at that very
\* instant); a row whose scan time is absent or unreadable gets a null bucket, and the calculation ends.
C9_TempoParado ==
  \A r \in Runs : JaCalculado(r) =>
    \A n \in 1..Len(finais[r]) :
      LET t == TempoLegivel(Get(finais[r][n], COL_TEMPO, PyNone))
      IN /\ COL_PARADO \in DOMAIN finais[r][n]
         /\ IF t = PyNone THEN finais[r][n][COL_PARADO] = PyNone
            ELSE \E N \in -10..10 :
                   /\ N * 86400 <= Segundos(hoje[r], t) /\ Segundos(hoje[r], t) < (N + 1) * 86400
                   /\ finais[r][n][COL_PARADO] = PyStr(EXCEED \o IntStr(N) \o DAYS_WITH_NO_TRACK)

\* a scan at the very instant of the calculation: bucket 0
C9_Witness ==
  /\ pc[1] = "indice"
  /\ Get(finais[1][1], COL_TEMPO, PyNone) = PyStr(T_0102_09)
  /\ hoje[1] = PyDatetime(ymd2ord(2024, 1, 2), 32400)
  /\ finais[1][1][COL_PARADO] = PyStr(<<"E", "x", "c", "e", "e", "d", " ", "0", " ", "d", "a", "y", "s", " ", "w", "i", "t", "h", " ", "n", "o", " ", "t", "r", "a", "c", "k">>)

\* an upload that fails validation: no name, an extension other than .xlsx or .xls, no content, or a
\* required column missing from the header row
ColunasEmFalta(f) == {COL_PEDIDO, COL_TEMPO, COL_CORREIO, COL_TIPO} \ {f.headers[i] : i \in 1..Len(f.headers)}
ExtensaoAceita(f) ==
  \/ Len(f.filename) >= 5 /\ lower(SubSeq(f.filename, Len(f.filename) - 4, Len(f.filename))) = <<".", "x", "l", "s", "x">>
  \/ Len(f.filename) >= 4 /\ lower(SubSeq(f.filename, Len(f.filename) - 3, Len(f.filename))) = <<".", "x", "l", "s">>
Invalido(f) == ~ExtensaoAceita(f) \/ f.vazio \/ ColunasEmFalta(f) # {}

\* C10: an upload that fails validation is rejected before any row is read and without any change to the
\* stores, the error lists exactly the missing required columns, and nothing is processed afterwards.
C10_Validacao ==
  [][\A r \in Runs :
       /\ (pc[r] = "idle" /\ pc'[r] # "idle" /\ Invalido(arquivo'[r])) =>
            /\ pc'[r] = "rejected"
            /\ d1_bipagens' = d1_bipagens /\ d1_chunks' = d1_chunks /\ indice_unico' = indice_unico
            /\ linhas_lidas'[r] = 0 /\ deduplicados'[r] = <<>> /\ finais'[r] = <<>>
            /\ resposta'[r].status \in {400, 500}
            /\ (ExtensaoAceita(arquivo'[r]) /\ ~arquivo'[r].vazio) =>
                 /\ {resposta'[r].missing[i] : i \in 1..Len(resposta'[r].missing)} = ColunasEmFalta(arquivo'[r])
                 /\ Len(resposta'[r].missing) = Cardinality(ColunasEmFalta(arquivo'[r]))
       /\ pc[r] = "rejected" =>
            /\ pc'[r] = "rejected" /\ resposta'[r] = resposta[r]
            /\ linhas_lidas'[r] = 0 /\ deduplicados'[r] = <<>> /\ finais'[r] = <<>> /\ obs'[r].gravados = {}]_vars

\* an upload without two required columns is rejected after another upload was stored: the store is as it was
C10_Witness ==
  /\ pc[1] = "done" /\ pc[2] = "rejected"
  /\ resposta[2].status = 500
  /\ resposta[2].missing = <<COL_CORREIO, COL_TIPO>>
  /\ Len(d1_bipagens) > 0 /\ d1_bipagens = obs[1].final

(***************************************************************************)
(* Properties of the chunked upload                                        *)
(***************************************************************************)
\* the batch of the upload, once insert_d1_main returned
LoteCriado == envio.main_id # 0
Lote == d1_main[envio.main_id]
\* the chunk documents of the batch that are in the store
ChunksDoLote == {n \in 1..Len(d1_chunks) : d1_chunks[n].main_document_id = envio.main_id}
\* the handler answered and the last status write it attempted returned
Respondeu == envio.pc = "done"

\* C11 as stated: once the batch document exists, whenever the handler finishes the batch is completed or
\* error, never processing, whatever the store calls in between did; after an unexpected exception it is
\* error with the exception message, and the caller gets the error.
C11_Original ==
  (Respondeu /\ LoteCriado) =>
    /\ Lote.status \in {"completed", "error"}
    /\ envio_obs.excecao =>
         /\ Lote.status = "error" /\ Lote.error_message = envio.error_msg
         /\ envio.resposta.status = 500 /\ envio.resposta.detail = envio.error_msg

\* C12 as stated: a batch with some but not all chunk writes failed ends completed, and a batch of which no
\* chunk write succeeded (the bulk insert and every fallback insert failed) ends error with an error message
\* (the status write itself returning).
C12_Original ==
  (Respondeu /\ LoteCriado /\ ~envio_obs.excecao) =>
    /\ (ChunksDoLote # {} /\ Cardinality(ChunksDoLote) < Len(envio.chunks_data)) => Lote.status = "completed"
    /\ (ChunksDoLote = {} /\ envio.chunks_saved = 0) => (Lote.status = "error" /\ Lote.error_message # PyNone)

\* the chunk numbers whose first write (the batch write) was attempted
NumerosTentados == {envio_obs.tentados[k].chunk_number : k \in 1..Len(envio_obs.tentados)}

\* C13: completed is written only after every chunk write of the batch, batch write and fallback, has
\* finished and chunks_saved has been compared with the number of chunks; a count that differs only sets
\* the warning, and the handler that got that far still writes completed when the store accepts it.
C13_Reconciliado ==
  /\ [][(LoteCriado /\ d1_main'[envio.main_id].status = "completed" /\ Lote.status # "completed") =>
          /\ envio.pc = "update_completed" /\ envio.comparado
          /\ envio.fb = 0 /\ envio.chunk_documents = <<>> /\ envio.i = Len(envio.chunks_data)
          /\ NumerosTentados = 1..Lote.total_chunks
          /\ envio.aviso = (envio.chunks_saved # Lote.total_chunks)
          /\ d1_chunks' = d1_chunks]_vars
  /\ []((LoteCriado /\ Lote.status = "completed") => envio.comparado)
  /\ []((Respondeu /\ LoteCriado /\ ~envio_obs.excecao) => Lote.status = "completed")

\* a batch that ended completed with the warning: a fallback insert failed and fewer chunks were counted
C13_Witness ==
  /\ Respondeu /\ LoteCriado
  /\ Lote.status = "completed" /\ envio.aviso
  /\ envio_obs.falhas > 0
  /\ envio.chunks_saved < Lote.total_chunks
  /\ Lote.total_chunks = 3

\* C14: no chunk document is sent to the store before its batch document exists, and every chunk document
\* in the store carries the id of a batch in the ledger, the batch of the upload that wrote it.
C14_LoteAntesDosChunks ==
  /\ envio_obs.antes_do_main = 0
  /\ ~LoteCriado => (d1_chunks = <<>> /\ envio_obs.tentados = <<>>)
  /\ \A n \in 1..Len(d1_chunks) :
       /\ d1_chunks[n].main_document_id \in 1..Len(d1_main)
       /\ d1_chunks[n].main_document_id = envio.main_id

\* chunks of a second batch are in the store, some through the batch write and some through the fallback
C14_Witness ==
  /\ Len(d1_main) = 2 /\ envio.main_id = 2
  /\ Len(d1_chunks) = 3
  /\ envio_obs.falhas > 0

\* the least n with n * b >= a
Ceil(a, b) == CHOOSE n \in 0..a : n * b >= a /\ (n - 1) * b < a

\* C15: for an upload of at least one row, total_chunks of the ledger is ceil(total_items / chunk_size) and
\* is the number of chunks create_chunks returns, which is the number of chunk documents sent to the store.
C15_TotalChunks ==
  LoteCriado =>
    /\ Lote.total_items >= 1 /\ Lote.total_items = Len(envio.dados) /\ Lote.chunk_size = CHUNK_SIZE
    /\ Lote.total_chunks = Ceil(Lote.total_items, Lote.chunk_size)
    /\ Lote.total_chunks = Len(envio.chunks_data)
    /\ envio.total_chunks = Lote.total_chunks
    /\ envio.comparado => Len(envio_obs.tentados) = Lote.total_chunks

\* a batch whose row count is not a multiple of the chunk size, after all its chunks were sent
C15_Witness ==
  /\ LoteCriado /\ envio.comparado
  /\ Lote.total_items % CHUNK_SIZE # 0
  /\ Lote.total_chunks >= 2

\* the rows of chunk documents, in the order of the documents
RECURSIVE Concatenar(_)
Concatenar(docs) == IF docs = <<>> THEN <<>> ELSE Head(docs).chunk_data \o Concatenar(Tail(docs))

\* C16: the chunk documents prepared for a batch are numbered 1..N in order, each holds at most chunk_size
\* rows, exactly chunk_size for all but the last, chunk_size of the document is its row count, and their
\* rows in chunk order are the parsed rows in order, none lost and none twice.
C16_Particao ==
  LoteCriado =>
    LET docs == envio_obs.tentados
    IN /\ \A k \in 1..Len(docs) :
            /\ docs[k].chunk_number = k
            /\ docs[k].chunk_size = Len(docs[k].chunk_data)
            /\ Len(docs[k].chunk_data) \in 1..CHUNK_SIZE
            /\ k < Lote.total_chunks => Len(docs[k].chunk_data) = CHUNK_SIZE
       /\ Concatenar(docs) = SubSeq(envio.dados, 1, Len(Concatenar(docs)))
       /\ envio.comparado => (Len(docs) = Lote.total_chunks /\ Concatenar(docs) = envio.dados)

\* three chunks were sent for a sheet of five rows: the last holds one row
C16_Witness ==
  /\ LoteCriado /\ envio.comparado
  /\ Len(envio_obs.tentados) = 3
  /\ envio_obs.tentados[3].chunk_size = 1
  /\ Len(envio.dados) = 5

(***************************************************************************)
(* Properties of the driver-status tables                                  *)
(***************************************************************************)
SemBase(b) == b \in {Ausente, PyNone, Vazio}
\* the driver and the base the last request named
MotoristaPedido == IF status_obs.pedido.motorista \in {Ausente, PyNone, Vazio} THEN status_obs.motorista ELSE status_obs.pedido.motorista
\* whether a record is the one a request for the driver and the base addresses
Enderecado(d) ==
  /\ d.responsavel = MotoristaPedido
  /\ IF SemBase(status_obs.pedido.base) THEN SemBase(d.base) ELSE d.base = status_obs.pedido.base
Removidos == {n \in 1..Len(status_obs.antes) : \A m \in 1..Len(motoristas_status) : motoristas_status[m] # status_obs.antes[n]}
EscritaNula == status_obs.op = "salvar" /\ status_obs.pedido.status = PyNone

\* C17: a write with null status removes exactly the record of the driver and base it names and leaves every
\* other record as it was; without a base it names only the driver's record whose base is missing, null or
\* empty, never one with a base; and a read of the same driver and base then returns status null.
C17_EscritaNulaApaga ==
  EscritaNula =>
    /\ Cardinality(Removidos) <= 1
    /\ \A n \in Removidos : Enderecado(status_obs.antes[n])
    /\ (\E n \in 1..Len(status_obs.antes) : Enderecado(status_obs.antes[n])) => Cardinality(Removidos) = 1
    /\ motoristas_status = SelectSeq(status_obs.antes, LAMBDA d : \A n \in Removidos : status_obs.antes[n] # d)
    /\ \A m \in 1..Len(motoristas_status) : ~Enderecado(motoristas_status[m])
    /\ obter_status_motorista(motoristas_status, MotoristaPedido, status_obs.pedido.base).status = PyNone
    /\ status_obs.reply.code = 200 /\ status_obs.reply.status = PyNone

\* a null write without base removed the driver's record without base and left the driver's record of base SP1
C17_Witness ==
  /\ EscritaNula
  /\ SemBase(status_obs.pedido.base)
  /\ Cardinality(Removidos) = 1
  /\ \E m \in 1..Len(motoristas_status) :
       motoristas_status[m].responsavel = MotoristaPedido /\ motoristas_status[m].base = PyStr(SP1)

(***************************************************************************)
(* Properties of the driver decision                                       *)
(***************************************************************************)
\* the row, the reference row and the stored document of a request of the join specification
LinhaJoin(r) == DadosBrutos(arquivo[r])[1]
RefJoin == d1_chunks[1].chunk_data[1]
DocJoin == d1_bipagens[Posicao(d1_bipagens, K123)]
\* a base cell as the decision reads it: str(), strip(), upper()
BaseLida(c) == upper(strip(str(c)))
\* the bipe type names a problematic package, in any letter case
TipoProblematico(c) == CelulaComTexto(c) /\ Contains(lower(c.v), PACOTE_PROBLEMATICO)

\* C18 as stated: whenever the courier cell of the resolved row holds a text, the record is stored with
\* esta_com_motorista true and the courier as driver, whatever the bases are.
C18_Original ==
  \A r \in Runs : (SemPerdas(r) /\ pool = "join") =>
    (CelulaComTexto(Get(LinhaJoin(r), COL_CORREIO, PyNone)) =>
       /\ DocJoin.esta_com_motorista = PyBool(TRUE)
       /\ DocJoin.responsavel_entrega = PyStr(strip(Get(LinhaJoin(r), COL_CORREIO, PyNone).v)))

\* C18: when the courier cell of the resolved row holds a text, the record is stored with esta_com_motorista
\* true and the trimmed courier as driver if the scan base and the reference base are equal as the decision
\* reads them (str(), trimmed, upper-cased), and with esta_com_motorista false and an empty driver if not:
\* the base gate stands before the courier rule too.
C18_CorreioComBasesIguais ==
  \A r \in Runs : (SemPerdas(r) /\ pool = "join") =>
    (CelulaComTexto(Get(LinhaJoin(r), COL_CORREIO, PyNone)) =>
       IF BaseLida(Get(LinhaJoin(r), COL_BASE_ESCANEAMENTO, PyNone)) = BaseLida(Get(RefJoin, COL_BASE_ENTREGA, PyNone))
       THEN /\ DocJoin.esta_com_motorista = PyBool(TRUE)
            /\ DocJoin.responsavel_entrega = PyStr(strip(Get(LinhaJoin(r), COL_CORREIO, PyNone).v))
       ELSE /\ DocJoin.esta_com_motorista = PyBool(FALSE)
            /\ DocJoin.responsavel_entrega = Vazio)

\* a row with a courier scanned at a base that is not the reference base was stored without driver
C18_Witness ==
  \E r \in Runs :
    /\ SemPerdas(r) /\ pool = "join"
    /\ Get(LinhaJoin(r), COL_CORREIO, PyNone) = PyStr(ANA)
    /\ Get(LinhaJoin(r), COL_BASE_ESCANEAMENTO, PyNone) = PyStr(RJ2)
    /\ Get(RefJoin, COL_BASE_ENTREGA, PyNone) = PyStr(SP1)
    /\ DocJoin.esta_com_motorista = PyBool(FALSE)

\* C19 as stated: a resolved row whose courier is a blank text, whose digitizer is not the reference
\* responsible, whose scan base is the reference base and whose bipe type names a problematic package in
\* any letter case is stored with esta_com_motorista true and the reference responsible as driver, or the
\* digitizer when the reference has none.
C19_Original ==
  \A r \in Runs : (SemPerdas(r) /\ pool = "join") =>
    ((/\ Get(LinhaJoin(r), COL_CORREIO, PyNone).t = "str" /\ CelulaVazia(Get(LinhaJoin(r), COL_CORREIO, PyNone))
      /\ CelulaComTexto(Get(LinhaJoin(r), COL_DIGITALIZADOR, PyNone))
      /\ ~MesmoTexto(Get(LinhaJoin(r), COL_DIGITALIZADOR, PyNone), Get(RefJoin, COL_RESPONSAVEL, PyNone))
      /\ MesmoTexto(Get(LinhaJoin(r), COL_BASE_ESCANEAMENTO, PyNone), Get(RefJoin, COL_BASE_ENTREGA, PyNone))
      /\ TipoProblematico(Get(LinhaJoin(r), COL_TIPO, PyNone))) =>
       /\ DocJoin.esta_com_motorista = PyBool(TRUE)
       /\ DocJoin.responsavel_entrega =
            IF CelulaComTexto(Get(RefJoin, COL_RESPONSAVEL, PyNone)) THEN PyStr(strip(Get(RefJoin, COL_RESPONSAVEL, PyNone).v))
            ELSE PyStr(strip(Get(LinhaJoin(r), COL_DIGITALIZADOR, PyNone).v)))

\* C20 as stated: a resolved row whose courier cell is empty (null or blank), whose digitizer does not match
\* the reference responsible (a null or blank one never matches) and whose bipe type does not name a
\* problematic package is stored with esta_com_motorista false and an empty driver, also when the bases match.
C20_Original ==
  \A r \in Runs : (SemPerdas(r) /\ pool = "join") =>
    ((/\ CelulaVazia(Get(LinhaJoin(r), COL_CORREIO, PyNone))
      /\ ~MesmoTexto(Get(LinhaJoin(r), COL_DIGITALIZADOR, PyNone), Get(RefJoin, COL_RESPONSAVEL, PyNone))
      /\ ~TipoProblematico(Get(LinhaJoin(r), COL_TIPO, PyNone))) =>
       /\ DocJoin.esta_com_motorista = PyBool(FALSE)
       /\ DocJoin.responsavel_entrega = Vazio)

(***************************************************************************)
(* The resolver on ties and on rows without a readable scan time           *)
(***************************************************************************)
\* a resolved row without the mark the resolver adds to it
SemMarca(d) == [k \in (DOMAIN d) \ {"_tem_motorista"} |-> d[k]]
\* whether the scan-time cell of a row is a datetime or a text in one of the four formats
CarimboLegivel(linha) ==
  LET c == Get(linha, COL_TEMPO, PyNone)
  IN c.t = "datetime" \/ (c.t = "str" /\ \E i \in 1..Len(FORMATOS) : strptime(c.v, FORMATOS[i]) # PyNone)
Carimbo(linha) == TempoLegivel(Get(linha, COL_TEMPO, PyNone))
\* the positions in dados of the readable rows of key k
LinhasDe(dados, k) == {i \in 1..Len(dados) : CarimboLegivel(dados[i]) /\ strip(str(Get(dados[i], COL_PEDIDO, Vazio))) = k}
\* among them, those whose scan time no other row of the key exceeds
NoMaximo(dados, k) == {i \in LinhasDe(dados, k) : \A j \in LinhasDe(dados, k) : ~DtLess(Carimbo(dados[i]), Carimbo(dados[j]))}
Minimo(S) == CHOOSE i \in S : \A j \in S : i <= j
ChaveResolvida(d) == strip(str(Get(d, COL_PEDIDO, Vazio)))

C22_SemCarimboNuncaEscolhida ==
  \A r \in Runs : pc[r] # "idle" /\ Validar(arquivo[r]) = PyNone =>
    LET dados == DadosBrutos(arquivo[r])
        chaves == {strip(str(Get(dados[i], COL_PEDIDO, Vazio))) : i \in 1..Len(dados)}
    IN /\ pc[r] # "rejected"
       /\ \A n \in 1..Len(deduplicados[r]) :
            /\ CarimboLegivel(deduplicados[r][n])
            /\ \E i \in 1..Len(dados) : CarimboLegivel(dados[i]) /\ dados[i] = SemMarca(deduplicados[r][n])
       /\ \A k \in chaves :
            Cardinality({n \in 1..Len(deduplicados[r]) : ChaveResolvida(deduplicados[r][n]) = k})
              = IF LinhasDe(dados, k) = {} THEN 0 ELSE 1
       /\ \A n \in 1..Len(deduplicados[r]) : ChaveResolvida(deduplicados[r][n]) \in chaves

\* shipment 123 has only a row whose scan time is in none of the formats, shipment 456 a readable row:
\* only 456 comes out
C22_Witness ==
  /\ pc[1] = "buscar"
  /\ arquivo[1].rows = << <<PyStr(K123), PyStr(T_ISO), PyStr(ANA), PyStr(BIPE_ENTRADA), PyStr(ANA), PyStr(SP1)>>,
                          <<PyStr(K456), PyStr(T_BR_0103_08), PyNone, PyStr(BIPE_ENTRADA), PyStr(ANA), PyStr(SP1)>> >>
  /\ Len(deduplicados[1]) = 1
  /\ Get(deduplicados[1][1], COL_PEDIDO, Vazio) = PyStr(K456)

(***************************************************************************)
(* The joiner's index                                                      *)
(***************************************************************************)
\* the places <<chunk, row>> of the reference store where key k stands
Posicoes(chunks, k) ==
  {p \in UNION {{<<i, j>> : j \in 1..Len(chunks[i].chunk_data)} : i \in 1..Len(chunks)} :
     strip(str(Get(chunks[p[1]].chunk_data[p[2]], COL_PEDIDO, Vazio))) = k}
Primeira(P) == CHOOSE p \in P : \A q \in P : p[1] < q[1] \/ (p[1] = q[1] /\ p[2] <= q[2])
\* the index a scan of every chunk to the end builds: for each wanted key, its first reference row
IndiceCompleto(chunks, wanted) ==
  {[k |-> k, registro |-> chunks[Primeira(Posicoes(chunks, k))[1]].chunk_data[Primeira(Posicoes(chunks, k))[2]]] :
     k \in {w \in wanted : Posicoes(chunks, w) # {}}}
\* how many reference rows the scan has to read before every wanted key is in the index (0 when it never is)
LidasAteCompletar(chunks, wanted) ==
  LET todas == UNION {Posicoes(chunks, k) : k \in wanted}
  IN IF \E k \in wanted : Posicoes(chunks, k) = {} THEN 0
     ELSE Cardinality({p \in UNION {{<<i, j>> : j \in 1..Len(chunks[i].chunk_data)} : i \in 1..Len(chunks)} :
                         \E k \in wanted : LET f == Primeira(Posicoes(chunks, k)) IN p[1] < f[1] \/ (p[1] = f[1] /\ p[2] <= f[2])})
TotalReferencias(chunks) == Cardinality(UNION {{<<i, j>> : j \in 1..Len(chunks[i].chunk_data)} : i \in 1..Len(chunks)})

\* C23: the index the joiner builds in its single pass with early stop is the index a scan of every
\* reference chunk to the end would build (for every wanted key its first reference row in scan order), so
\* the rows that are merged and the rows that are dropped are those of the full scan.
C23_IndiceIgualVarreduraCompleta ==
  \A r \in Runs : pc[r] \in {"buscar", "calcular"} =>
    LET wanted == NumerosPedidos(deduplicados[r])
        completo == IndiceCompleto(d1_chunks, wanted)
    IN /\ VarrerChunks(d1_chunks, 1, wanted, {}) = completo
       /\ pc[r] = "calcular" =>
            /\ ChavesDe(finais[r]) = {e.k : e \in completo} \cap ChavesDe(deduplicados[r])
            /\ \A n \in 1..Len(finais[r]) : \E e \in completo :
                 /\ e.k = Get(finais[r][n], COL_PEDIDO, Vazio).v
                 /\ Get(finais[r][n], "_responsavel_entrega_chunks_original", Vazio) = PyStr(strip(str(Get(e.registro, COL_RESPONSAVEL, Vazio))))

\* shipment 123 alone is wanted: the first of the four reference rows completes the index, the scan stops
\* there, and the merged row carries that first row's responsible, not the one of the later row of 123
C23_Witness ==
  /\ pc[1] = "calcular"
  /\ NumerosPedidos(deduplicados[1]) = {K123}
  /\ LidasAteCompletar(d1_chunks, {K123}) = 1
  /\ TotalReferencias(d1_chunks) = 4
  /\ Cardinality(Posicoes(d1_chunks, K123)) = 2
  /\ Len(finais[1]) = 1
  /\ Get(finais[1][1], "_responsavel_entrega_chunks_original", Vazio) = PyStr(Joao)

(***************************************************************************)
(* The two batched write paths                                             *)
(***************************************************************************)
Vezes(seq, x) == Cardinality({i \in 1..Len(seq) : seq[i] = x})
\* the first place of the batch that holds place q of dados
InicioDoLote(q) == ((q - 1) \div chunk_size) * chunk_size + 1
NumerosEmBulk == [k \in 1..Len(envio_obs.tentados) |-> envio_obs.tentados[k].chunk_number]
Escrevendo(r) == pc[r] \in {"bulk", "fb_find", "fb_write", "retornar", "done"}

\* C24: in the record upsert and in the chunk insert, an item goes to the store for writing at most twice:
\* once inside the bulk call of its batch and at most once on its own, and only after that bulk call
\* raised; an individual write that failed is not repeated; and whatever happened to a batch, every batch
\* after it is first sent through the bulk call.  (The find_one that precedes an individual record write is
\* a read and is not counted.)
C24_NoMaximoDuasVezes ==
  /\ \A r \in Runs : Escrevendo(r) =>
       /\ \A k \in 1..Len(obs[r].em_bulk) : obs[r].em_bulk[k] \in 1..Len(finais[r])
       /\ \A k \in 1..Len(obs[r].individuais) : obs[r].individuais[k] \in 1..Len(finais[r])
       /\ \A q \in 1..Len(finais[r]) :
            /\ Vezes(obs[r].em_bulk, q) <= 1
            /\ Vezes(obs[r].individuais, q) <= 1
            /\ Vezes(obs[r].individuais, q) = 1 => (Vezes(obs[r].em_bulk, q) = 1 /\ InicioDoLote(q) \in obs[r].bulk_falhou)
       /\ pc[r] \in {"retornar", "done"} =>
            obs[r].em_bulk = SelectSeq([q \in 1..Len(finais[r]) |-> q], LAMBDA q : Operavel(finais[r][q]))
  /\ \A n \in 1..Len(envio.chunks_data) :
       /\ Vezes(NumerosEmBulk, n) <= 1
       /\ Vezes(envio_obs.individuais, n) <= 1
       /\ Vezes(envio_obs.individuais, n) = 1 => (Vezes(NumerosEmBulk, n) = 1 /\ n \in envio_obs.bulk_falhou)
  /\ \A k \in 1..Len(envio_obs.individuais) : envio_obs.individuais[k] \in 1..Len(envio.chunks_data)
  /\ (LoteCriado /\ envio.pc \in {"update_completed", "update_error", "done"}) =>
       NumerosEmBulk = [n \in 1..Len(envio.chunks_data) |-> n]

\* the first bulk insert of chunks raised and one of its chunks failed again on its own, yet the third
\* chunk went through a bulk insert; then the first bulk upsert of records raised, both records were
\* written on their own, one of them failing, and the third record went through a bulk upsert
C24_Witness ==
  /\ envio_obs.bulk_falhou = {1, 2}
  /\ NumerosEmBulk = <<1, 2, 3>>
  /\ envio_obs.individuais = <<1, 2>>
  /\ envio_obs.falhas = 1
  /\ pc[1] = "done"
  /\ Len(finais[1]) = 3
  /\ obs[1].bulk_falhou = {1}
  /\ obs[1].em_bulk = <<1, 2, 3>>
  /\ obs[1].individuais = <<1, 2>>
  /\ Len(obs[1].lotes) = 2
  /\ obs[1].lotes[1].via = "fallback" /\ obs[1].lotes[1].dfl = 1
  /\ obs[1].lotes[2].via = "bulk"

\* the sample of error messages of a result; a result without the field holds none
ErrosNoResumo(resp) == IF "erros" \in DOMAIN resp THEN resp["erros"] ELSE <<>>

\* C25 as stated: in the per-record fallback a record whose write fails does not end the run, every other
\* record of the batch is still attempted, and the summary carries the number of failures and at most ten
\* of their messages.
C25_Original ==
  \A r \in Runs : pc[r] = "done" =>
    /\ \A i \in 1..Len(obs[r].lotes) : obs[r].lotes[i].via = "fallback" => obs[r].lotes[i].tent = obs[r].lotes[i].n
    /\ FalhasNoResumo(resposta[r]) = Cardinality(obs[r].perdidos)
    /\ Len(ErrosNoResumo(resposta[r])) = (IF Cardinality(obs[r].perdidos) < 10 THEN Cardinality(obs[r].perdidos) ELSE 10)

(***************************************************************************)
(* created_at and updated_at                                               *)
(***************************************************************************)
\* the request that is writing
Escritor(r) == pc[r] \in {"bulk", "fb_write"}

\* C26: through the bulk upsert and through the fallback, created_at is given to a record when it is
\* inserted, as the time of the run that inserts it, and no later write changes it; every write of a run
\* on a record leaves updated_at at that run's time.
C26_CarimbosDeEscrita ==
  /\ [][/\ Len(d1_bipagens') >= Len(d1_bipagens)
        /\ \A i \in 1..Len(d1_bipagens) :
             /\ d1_bipagens'[i].numero_pedido_jms = d1_bipagens[i].numero_pedido_jms
             /\ d1_bipagens'[i].created_at = d1_bipagens[i].created_at
             /\ d1_bipagens'[i] # d1_bipagens[i] => \E r \in Runs : Escritor(r) /\ d1_bipagens'[i].updated_at = hoje[r]
        /\ \A i \in (Len(d1_bipagens) + 1)..Len(d1_bipagens') :
             \E r \in Runs : Escritor(r) /\ d1_bipagens'[i].created_at = hoje[r] /\ d1_bipagens'[i].updated_at = hoje[r]]_vars
  /\ [](\A r \in Runs : pc[r] = "done" =>
          \A k \in obs[r].gravados : \A i \in 1..Len(obs[r].final) :
            obs[r].final[i].numero_pedido_jms = k => obs[r].final[i].updated_at = hoje[r])

\* shipment 123 was inserted by the bulk upsert of the first run and written again, a day later, by the
\* fallback of the second: created_at is still the first run's time, updated_at is the second's
C26_Witness ==
  /\ pc[1] = "done" /\ pc[2] = "done"
  /\ DtLess(hoje[1], hoje[2])
  /\ Len(obs[1].lotes) = 1 /\ obs[1].lotes[1].via = "bulk"
  /\ Len(obs[2].lotes) = 1 /\ obs[2].lotes[1].via = "fallback" /\ obs[2].lotes[1].dup > 0
  /\ K123 \in obs[1].gravados \cap obs[2].gravados
  /\ Quantos(d1_bipagens, K123) = 1
  /\ d1_bipagens[Posicao(d1_bipagens, K123)].created_at = hoje[1]
  /\ d1_bipagens[Posicao(d1_bipagens, K123)].updated_at = hoje[2]

(***************************************************************************)
(* The count of chunks written and the batch status                        *)
(***************************************************************************)
\* C27 as stated: the count the chunk-writing path returns is the number of chunk documents of the batch
\* that are in the store, and no chunk number of the batch is stored twice, also when a bulk insert stored
\* some chunks before it raised and the fallback then inserted the same chunks one by one.
C27_Original ==
  (LoteCriado /\ envio.comparado) =>
    /\ envio.chunks_saved = Cardinality(ChunksDoLote)
    /\ \A a, b \in ChunksDoLote : d1_chunks[a].chunk_number = d1_chunks[b].chunk_number => a = b

C29_FlagSeESoSeMotorista ==
  \A i \in 1..Len(d1_bipagens) :
    /\ d1_bipagens[i].esta_com_motorista \in {PyBool(TRUE), PyBool(FALSE)}
    /\ d1_bipagens[i].responsavel_entrega.t = "str"
    /\ (d1_bipagens[i].esta_com_motorista = PyBool(TRUE)) <=> (Len(d1_bipagens[i].responsavel_entrega.v) > 0)

\* a record decided by the digitizer rule (a blank courier, digitizer equal to the reference responsible) and
\* stored by the fallback after the bulk upsert raised: the flag is true and the driver is named
C29_Witness ==
  /\ pc[1] = "done"
  /\ Get(LinhaJoin(1), COL_CORREIO, PyNone) = PyStr(<<" ">>)
  /\ Len(obs[1].lotes) = 1 /\ obs[1].lotes[1].via = "fallback" /\ obs[1].lotes[1].dsv = 1
  /\ Len(d1_bipagens) = 1
  /\ d1_bipagens[1].esta_com_motorista = PyBool(TRUE)
  /\ d1_bipagens[1].responsavel_entrega = PyStr(Joao)

(***************************************************************************)
(* The counts of the run summary                                           *)
(***************************************************************************)
RECURSIVE SomaDsv(_)
SomaDsv(lotes) == IF Len(lotes) = 0 THEN 0 ELSE Head(lotes).dsv + SomaDsv(Tail(lotes))
RECURSIVE SomaDup(_)
SomaDup(lotes) == IF Len(lotes) = 0 THEN 0 ELSE Head(lotes).dup + SomaDup(Tail(lotes))

\* C30: a record is counted at most once: each batch adds either the counts of its bulk result or the
\* per-record counts of its fallback, a bulk call that raised adds nothing; hence total_salvos +
\* total_atualizados <= total_processados <= total_deduplicados <= total_linhas_lidas; and a record that a
\* bulk call stored before it raised is counted by the fallback as updated, never as inserted.
C30_ContadoUmaVez ==
  /\ [](\A r \in Runs : Escrevendo(r) =>
          /\ saved[r] = SomaDsv(obs[r].lotes) + obs[r].dsv
          /\ updated[r] = SomaDup(obs[r].lotes) + obs[r].dup
          /\ \A i \in 1..Len(obs[r].lotes) :
               /\ obs[r].lotes[i].dsv + obs[r].lotes[i].dup <= obs[r].lotes[i].n
               /\ obs[r].lotes[i].via = "bulk" <=> (i - 1) * chunk_size + 1 \notin obs[r].bulk_falhou
          /\ pc[r] = "done" =>
               /\ Len(obs[r].lotes) = Ceil(Len(finais[r]), chunk_size)
               /\ resposta[r].total_salvos = SomaDsv(obs[r].lotes)
               /\ resposta[r].total_atualizados = SomaDup(obs[r].lotes)
               /\ resposta[r].total_salvos + resposta[r].total_atualizados <= resposta[r].total_processados
               /\ resposta[r].total_processados <= resposta[r].total_deduplicados
               /\ resposta[r].total_deduplicados <= resposta[r].total_linhas_lidas)
  /\ [][\A r \in Runs :
          /\ (pc[r] = "bulk" /\ pc'[r] = "fb_find") => (saved'[r] = saved[r] /\ updated'[r] = updated[r])
          /\ (pc[r] = "fb_write" /\ pc'[r] # "fb_write" /\ chunk_idx[r] \in obs[r].bulk_falhou
                /\ ChaveFallback(r) \in obs[r].gravados) =>
               /\ saved'[r] = saved[r]
               /\ updated'[r] = updated[r] + 1 \/ (updated'[r] = updated[r] /\ ChaveFallback(r) \in obs'[r].perdidos)]_vars

\* the bulk upsert of shipments 1 and 2 stored one of them and raised: the fallback counted that one as
\* updated and the other as inserted; shipment 3 went through the next bulk upsert: 2 inserted, 1 updated
C30_Witness ==
  /\ pc[1] = "done"
  /\ obs[1].bulk_falhou = {1}
  /\ Len(obs[1].lotes) = 2
  /\ obs[1].lotes[1].via = "fallback" /\ obs[1].lotes[1].dsv = 1 /\ obs[1].lotes[1].dup = 1
  /\ obs[1].lotes[2].via = "bulk" /\ obs[1].lotes[2].dsv = 1
  /\ Len(d1_bipagens) = 3
  /\ resposta[1].total_salvos = 2 /\ resposta[1].total_atualizados = 1
  /\ resposta[1].total_processados = 3 /\ resposta[1].total_deduplicados = 3
  /\ resposta[1].total_linhas_lidas = 4

====
